---- MODULE Spec2Model ----
(***************************************************************************)
(* Advanced_RAG: the sentence chunker (src/src/chunker.py) and the         *)
(* resumable batch embedding / indexing pipeline                           *)
(* (src/src/Embeddings/batch_processor.py, embedding_service.py,           *)
(* src/src/vector_strore/vector_manager.py, qdrant_store.py).              *)
(*                                                                         *)
(* Spec           : the indexing pipeline, run after run over one store    *)
(* SpecChunker    : SmartChunker.chunk_text on one source unit             *)
(* SpecPages      : SmartChunker.process_pages on a list of pages          *)
(* SpecText       : split_text_by_sentences and chunk_text on a text       *)
(* SpecCheckpoint : save_checkpoint and load_checkpoint on the file's text *)
(* SpecService    : EmbeddingService, construction and batch calls         *)
(* SpecStore      : QdrantStore.upsert_embeddings and Retriever            *)
(* SpecUpsert     : one upsert_embeddings call, batch by batch             *)
(* SpecReprocess  : the pipeline over a chunk store rebuilt between runs   *)
(* SpecShortReply : the pipeline with a provider that may answer short     *)
(***************************************************************************)
EXTENDS Integers, Sequences, FiniteSets, TLC

\* ------------------------------------------------------------------ bounds
\* chunks held by the chunk store
MaxChunks == 11
\* largest configured embedding group size
MaxBatchSize == 3
\* pipeline invocations (processes) in one behaviour
MaxRuns == 2
\* sentences in one source unit
MaxSentences == 3
\* largest chunk_size handed to SmartChunker
MaxChunkSize == 4
\* pages handed to process_pages
MaxPages == 2
\* save_checkpoint calls made on one checkpoint file
MaxSaves == 2
\* chunk_ids in a saved checkpoint
MaxSavedIds == 3
\* calls of generate_embeddings_batch on one EmbeddingService
MaxCalls == 2
\* texts handed to one generate_embeddings_batch call
MaxTexts == 2
\* tokens the provider reports for one request
MaxUsage == 2
\* upsert_embeddings calls on one collection
MaxUploads == 2
\* records handed to one upsert_embeddings call
MaxRecords == 2
\* characters of a text handed to chunk_text
MaxTextLen == 5
\* records handed to the upsert_embeddings call that is followed batch by batch
MaxUpsertLen == 3
\* chunks held by a chunk store that is rebuilt or whose provider answers short
MaxStored == 2

\* --------------------------------------------------------- program constants
\* batch_processor.py:123  "if (batch_idx + 1) % 10 == 0"
SAVE_EVERY == 10
\* embedding_service.py:74  stop_after_attempt(3)
STOP_AFTER_ATTEMPT == 3
\* qdrant_store.py:74  upsert_embeddings(..., batch_size: int = 100)
UPSERT_BATCH_SIZE == 100
\* settings.py:39  EMBEDDING_BATCH_SIZE: int = 100
EMBEDDING_BATCH_SIZE == 100
\* settings.py:26  CHUNK_SIZE: int = 1000
CHUNK_SIZE == 1000
\* settings.py:27  CHUNK_OVERLAP: int = 200
CHUNK_OVERLAP == 200

VARIABLES
    \* ---- persistent across processes
    storage,            \* ChunkStorage: the rows get_all_chunks returns, in order
    checkpoint_file,    \* checkpoints/embedding_progress.json
    vector_store,       \* Qdrant collection: point id i is vector_store[i + 1]
    batch_size,         \* BatchEmbeddingProcessor.batch_size
    \* ---- one invocation of VectorManager.index_all_chunks
    pc,                 \* position of the process: "idle", "embedding", "after_loop", "returned"
    resume,             \* the resume argument
    processed_ids,      \* process_all_chunks: processed_ids
    all_chunks,         \* process_all_chunks: all_chunks
    chunks_to_process,  \* process_all_chunks: chunks_to_process
    batches,            \* process_all_chunks: batches
    batch_idx,          \* process_all_chunks: batch_idx (groups completed)
    attempt,            \* failed attempts of the generate_embeddings_batch call in flight
    waited,             \* what tenacity slept before the attempt in flight (0: nothing)
    embeddings_data,    \* process_all_chunks: embeddings_data
    result,             \* what process_all_chunks returned
    \* ---- history (not read by the program)
    loaded_ids,         \* the processed set as loaded at the start of the run
    calls,              \* chunk_id lists handed to generate_embeddings_batch, this run
    saves,              \* checkpoints written by this run, in order
    delivered,          \* chunk_ids whose record was returned and upserted, ever
    run_no,             \* invocations started so far
    prev,               \* summary of the last finished invocation
    \* ---- SmartChunker and one call of chunk_text
    chunk_size,         \* self.chunk_size
    overlap,            \* self.overlap
    overlap_arg,        \* __init__: the overlap argument
    page_number,        \* metadata['page_number']
    sentences,          \* chunk_text: sentences (what split_text_by_sentences gave)
    pos,                \* sentences consumed by the for loop
    chunks,             \* chunk_text: chunks
    current_chunk,      \* chunk_text: current_chunk
    current_tokens,     \* chunk_text: current_tokens
    chunk_id,           \* chunk_text: chunk_id
    cpc,                \* "off", "loop" or "done"
    trail,              \* history: what the loop did with each sentence consumed
    \* ---- the checkpoint file, one saving process and one loading process
    disk_file,          \* embedding_progress.json: whether it exists and its text
    wpc,                \* the saver: "off", "idle" or "open" (inside "with open(..., 'w')")
    wbuf,               \* text json.dump has produced that is not in the file yet
    wstate,             \* what the save in progress, or the last one, was asked to save
    last_save,          \* "none", "complete" or "torn" (the saver was killed inside it)
    committed,          \* what the last completed save saved (the default before any)
    clock,              \* time.time()
    rgot,               \* what the last load_checkpoint returned
    racc,               \* the complete checkpoints that load could have met
    \* ---- process_pages
    pages,              \* process_pages: pages, each a page_number and its sentences
    page_idx,           \* pages whose chunks are in all_chunks
    pages_all_chunks,   \* process_pages: all_chunks
    page_results,       \* history: what chunk_text returned for each page
    \* ---- EmbeddingService and the settings it reads
    settings_provider,  \* settings.EMBEDDING_PROVIDER
    settings_key,       \* settings.OPENAI_API_KEY is set
    svc_state,          \* "unbuilt", "built", or "ValueError" raised by __init__
    provider,           \* self.provider
    client,             \* self.client has been assigned
    self_total_tokens,  \* self.total_tokens
    gpc,                \* generate_embeddings_batch: "idle" or inside the "body"
    call_texts,         \* its argument, texts
    gattempt,           \* tenacity's attempt number of the running call
    returned,           \* what the last call returned or raised
    provider_requests,  \* history: requests that went out to the provider
    ncalls,             \* history: calls of generate_embeddings_batch
    \* ---- QdrantStore, ChunkStorage and Retriever on their own
    collection,         \* the collection: point id + 1 -> chunk_id of its payload
    chunk_rows,         \* chunk_ids ChunkStorage has a row for
    uploads,            \* history: records and return value of each upsert call
    retrieved,          \* what the last Retriever call did and returned
    \* ---- a text on its way through split_text_by_sentences
    page_text,          \* chunk_text's argument, character by character
    text_sentences,     \* what split_text_by_sentences returned for it
    \* ---- one upsert_embeddings call, batch by batch (on `collection`)
    up_data,            \* embeddings_data
    up_batch_size,      \* batch_size
    up_i,               \* i of "for i in range(0, len(embeddings_data), batch_size)"
    up_total,           \* total_uploaded
    upc,                \* "off", in the "loop", "done" or "raised"
    up_returned,        \* the return value
    up_sent,            \* history: the points of each client.upsert call
    up_before           \* history: the collection when the call began

pipeVars == <<storage, checkpoint_file, vector_store, batch_size, pc, resume,
              processed_ids, all_chunks, chunks_to_process, batches, batch_idx,
              attempt, waited, embeddings_data, result, loaded_ids,
              calls, saves, delivered, run_no, prev>>

chunkVars == <<chunk_size, overlap, overlap_arg, page_number, sentences, pos, chunks,
               current_chunk, current_tokens, chunk_id, cpc, trail>>

fileVars == <<disk_file, wpc, wbuf, wstate, last_save, committed, clock, rgot, racc>>

pageVars == <<pages, page_idx, pages_all_chunks, page_results>>

serviceVars == <<settings_provider, settings_key, svc_state, provider, client,
                 self_total_tokens, gpc, call_texts, gattempt, returned,
                 provider_requests, ncalls>>

storeVars == <<collection, chunk_rows, uploads, retrieved>>

textVars == <<page_text, text_sentences>>

upsertVars == <<up_data, up_batch_size, up_i, up_total, upc, up_returned, up_sent,
                up_before>>

vars == <<pipeVars, chunkVars, fileVars, pageVars, serviceVars, storeVars, textVars,
          upsertVars>>

\* what the steps of one component leave alone
outsidePipe ==
    <<chunkVars, fileVars, pageVars, serviceVars, storeVars, textVars, upsertVars>>

outsideChunking ==
    <<pipeVars, fileVars, serviceVars, storeVars, textVars, upsertVars>>

outsideChunker == <<outsideChunking, pageVars>>

outsideFile ==
    <<pipeVars, chunkVars, pageVars, serviceVars, storeVars, textVars, upsertVars>>

outsideService ==
    <<pipeVars, chunkVars, fileVars, pageVars, storeVars, textVars, upsertVars>>

outsideStore ==
    <<pipeVars, chunkVars, fileVars, pageVars, serviceVars, textVars, upsertVars>>

outsideUpsert == <<pipeVars, chunkVars, fileVars, pageVars, serviceVars, textVars>>

outsideText ==
    <<pipeVars, fileVars, pageVars, serviceVars, storeVars, upsertVars>>

\* ------------------------------------------------------------------ helpers
Min(a, b) == IF a <= b THEN a ELSE b

Range(s) == {s[i] : i \in 1..Len(s)}

RECURSIVE Flatten(_)
Flatten(ss) == IF ss = <<>> THEN <<>> ELSE Head(ss) \o Flatten(Tail(ss))

\* ---------------------------------------------------------------- the store
\* A row of the chunk store as DocumentChunk.to_dict gives it.  chunk_id is
\* the row's identifier; text, source_page and token_count differ from it and
\* from each other so that a mix-up of fields shows.
Chunk(i) == [chunk_id |-> i, text |-> 100 + i,
             source_page |-> (i + 1) \div 2, token_count |-> 10 + i]

get_all_chunks(n) == [i \in 1..n |-> Chunk(i)]

ChunkIds(cs) == [i \in 1..Len(cs) |-> cs[i].chunk_id]

\* ------------------------------------------------------------ the checkpoint
\* list(processed_ids): a set written as a JSON list
RECURSIVE SetToList(_)
SetToList(S) ==
    IF S = {} THEN <<>>
    ELSE LET m == CHOOSE x \in S : \A y \in S : x <= y
         IN <<m>> \o SetToList(S \ {m})

\* set(checkpoint['processed_chunk_ids'])
ListToSet(l) == Range(l)

NoCheckpointFile == [exists |-> FALSE, processed_chunk_ids |-> <<>>, last_batch |-> 0]

load_checkpoint(file) ==
    IF file.exists
    THEN [processed_chunk_ids |-> file.processed_chunk_ids, last_batch |-> file.last_batch]
    ELSE [processed_chunk_ids |-> <<>>, last_batch |-> 0]

save_checkpoint(ids_list, batch_num) ==
    [exists |-> TRUE, processed_chunk_ids |-> ids_list, last_batch |-> batch_num]

\* mutant: the checkpoint file is never read
StartCheckpoint_Fresh(r, file) == [processed_chunk_ids |-> <<>>, last_batch |-> 0]

\* the checkpoint process_all_chunks starts from
StartCheckpoint(r, file) ==
    IF r THEN load_checkpoint(file)
    ELSE [processed_chunk_ids |-> <<>>, last_batch |-> 0]

\* ------------------------------------------------------- process_all_chunks
\* mutant: nothing is filtered out
FilterPending_KeepsAll(cs, done) == cs

\* [chunk for chunk in all_chunks if chunk['chunk_id'] not in processed_ids]
RECURSIVE FilterPending(_, _)
FilterPending(cs, done) ==
    IF cs = <<>> THEN <<>>
    ELSE IF Head(cs).chunk_id \in done THEN FilterPending(Tail(cs), done)
         ELSE <<Head(cs)>> \o FilterPending(Tail(cs), done)

\* mutant: each slice runs one chunk into the next
MakeBatches_OffByOne(cs, bs) ==
    [k \in 1..((Len(cs) + bs - 1) \div bs) |->
        SubSeq(cs, (k - 1) * bs + 1, Min(k * bs + 1, Len(cs)))]

\* [chunks_to_process[i:i + batch_size] for i in range(0, len(chunks_to_process), batch_size)]
MakeBatches(cs, bs) ==
    [k \in 1..((Len(cs) + bs - 1) \div bs) |->
        SubSeq(cs, (k - 1) * bs + 1, Min(k * bs, Len(cs)))]

\* mutant: the early return reports nothing as processed
AllDoneResult_ZeroProcessed(rows) ==
    [returned |-> TRUE, embeddings |-> <<>>, total_chunks |-> Len(rows),
     processed |-> 0, skipped |-> Len(rows), embeddings_generated |-> 0]

\* the early return when nothing is pending
AllDoneResult(rows) ==
    [returned |-> TRUE, embeddings |-> <<>>, total_chunks |-> Len(rows),
     processed |-> Len(rows), skipped |-> Len(rows), embeddings_generated |-> 0]

\* the return at the end of a run that embedded something
FinalResult(rows, data, done) ==
    [returned |-> TRUE, embeddings |-> data, total_chunks |-> Len(rows),
     processed |-> Len(data), skipped |-> Cardinality(done) - Len(data),
     embeddings_generated |-> Len(data)]

NoResult ==
    [returned |-> FALSE, embeddings |-> <<>>, total_chunks |-> 0,
     processed |-> 0, skipped |-> 0, embeddings_generated |-> 0]

\* the provider's vector for one text
Vector(text) == 1000 + text

\* response.data of one embeddings.create call: one vector per input, in order
ProviderResponse(texts) == [i \in 1..Len(texts) |-> Vector(texts[i])]

\* mutant: source_page and token_count change places
CombineWithMetadata_Swapped(batch, embeddings) ==
    [i \in 1..Min(Len(batch), Len(embeddings)) |->
        [chunk_id |-> batch[i].chunk_id, embedding |-> embeddings[i],
         source_page |-> batch[i].token_count, token_count |-> batch[i].source_page]]

\* for chunk, embedding in zip(batch, embeddings): embeddings_data.append({...})
CombineWithMetadata(batch, embeddings) ==
    [i \in 1..Min(Len(batch), Len(embeddings)) |->
        [chunk_id |-> batch[i].chunk_id, embedding |-> embeddings[i],
         source_page |-> batch[i].source_page, token_count |-> batch[i].token_count]]

CurrentBatch == batches[batch_idx + 1]

Texts(batch) == [i \in 1..Len(batch) |-> batch[i].text]

\* ---------------------------------------------------------- upsert_embeddings
\* Point ids of one call: id = total_uploaded + idx inside each upload batch.
RECURSIVE PointsFrom(_, _, _)
PointsFrom(data, total_uploaded, ubs) ==
    IF data = <<>> THEN <<>>
    ELSE LET batch == SubSeq(data, 1, Min(ubs, Len(data)))
             points == [j \in 1..Len(batch) |->
                           [id |-> total_uploaded + (j - 1), chunk_id |-> batch[j].chunk_id]]
         IN points \o PointsFrom(SubSeq(data, Len(batch) + 1, Len(data)),
                                 total_uploaded + Len(points), ubs)

\* client.upsert: a point with an id already present replaces it
RECURSIVE ApplyPoints(_, _)
ApplyPoints(store, points) ==
    IF points = <<>> THEN store
    ELSE LET p == Head(points)
             grown == IF p.id + 1 <= Len(store) THEN store
                      ELSE store \o [j \in 1..(p.id + 1 - Len(store)) |-> 0]
         IN ApplyPoints([grown EXCEPT ![p.id + 1] = p.chunk_id], Tail(points))

\* mutant: point ids go on after the points the collection holds
upsert_embeddings_sized_Appends(store, data, ubs) ==
    ApplyPoints(store, PointsFrom(data, Len(store), ubs))

\* upsert_embeddings(embeddings_data, batch_size)
upsert_embeddings_sized(store, data, ubs) == ApplyPoints(store, PointsFrom(data, 0, ubs))

upsert_embeddings(store, data) == upsert_embeddings_sized(store, data, UPSERT_BATCH_SIZE)

\* return total_uploaded
UploadedCount(data) == Len(PointsFrom(data, 0, UPSERT_BATCH_SIZE))

\* before any invocation has finished
\* QdrantStore.get_collection_info: the statistics of the collection
get_collection_info(store) == [fetched |-> TRUE, points_count |-> Len(store)]

\* index_all_chunks did not get to its vector store calls
NotIndexed ==
    [uploaded_count |-> 0, store_calls |-> <<>>,
     collection_info |-> [fetched |-> FALSE, points_count |-> 0]]

\* "if not embeddings_data": the statistics are fetched, nothing is uploaded
IndexedNothing(store) ==
    [uploaded_count |-> 0, store_calls |-> <<"get_collection_info">>,
     collection_info |-> get_collection_info(store)]

\* mutant: the statistics are fetched before the upload
Indexed_StatsFirst(data, store) ==
    [uploaded_count |-> UploadedCount(data),
     store_calls |-> <<"get_collection_info", "upsert_embeddings">>,
     collection_info |-> get_collection_info(store)]

\* upsert_embeddings, then get_collection_info on the collection it left
Indexed(data, store) ==
    [uploaded_count |-> UploadedCount(data),
     store_calls |-> <<"upsert_embeddings", "get_collection_info">>,
     collection_info |-> get_collection_info(upsert_embeddings(store, data))]

\* upsert_embeddings raised
IndexFailed ==
    [uploaded_count |-> 0, store_calls |-> <<"upsert_embeddings">>,
     collection_info |-> [fetched |-> FALSE, points_count |-> 0]]

NoRun ==
    [resume |-> TRUE, outcome |-> "none", loaded |-> {}, chunks |-> <<>>,
     groups |-> <<>>, completed |-> 0, calls |-> <<>>, embeddings |-> <<>>,
     result |-> NoResult, uploaded_count |-> 0, store_calls |-> <<>>,
     collection_info |-> NotIndexed.collection_info,
     checkpoint |-> NoCheckpointFile, saves |-> <<>>]

\* BatchEmbeddingProcessor.__init__: batch_size or settings.EMBEDDING_BATCH_SIZE
\* (0 stands for the argument left out)
InitBatchSize(arg) == IF arg # 0 THEN arg ELSE EMBEDDING_BATCH_SIZE

\* ------------------------------------------------------------------- Init
PipeInit ==
    /\ storage \in {get_all_chunks(n) : n \in 0..MaxChunks}
    /\ batch_size \in {InitBatchSize(arg) : arg \in 0..MaxBatchSize}
    /\ checkpoint_file = NoCheckpointFile
    /\ vector_store = <<>>
    /\ pc = "idle"
    /\ resume = TRUE
    /\ processed_ids = {}
    /\ all_chunks = <<>>
    /\ chunks_to_process = <<>>
    /\ batches = <<>>
    /\ batch_idx = 0
    /\ attempt = 0
    /\ waited = 0
    /\ embeddings_data = <<>>
    /\ result = NoResult
    /\ loaded_ids = {}
    /\ calls = <<>>
    /\ saves = <<>>
    /\ delivered = {}
    /\ run_no = 0
    /\ prev = NoRun

\* the chunker is not in use
ChunkerOff ==
    /\ chunk_size = CHUNK_SIZE
    /\ overlap = CHUNK_OVERLAP
    /\ overlap_arg = 0
    /\ page_number = 0
    /\ sentences = <<>>
    /\ pos = 0
    /\ chunks = <<>>
    /\ current_chunk = <<>>
    /\ current_tokens = 0
    /\ chunk_id = 0
    /\ cpc = "off"
    /\ trail = <<>>

\* load_checkpoint's answer when there is no file
DefaultCheckpoint == [processed_chunk_ids |-> <<>>, last_batch |-> 0]

NoFile == [exists |-> FALSE, text |-> <<>>]

NotLoaded == [done |-> FALSE, ok |-> TRUE, processed_chunk_ids |-> <<>>, last_batch |-> 0]

\* the checkpoint file is not followed at the level of its text
FileOff ==
    /\ disk_file = NoFile
    /\ wpc = "off"
    /\ wbuf = <<>>
    /\ wstate = DefaultCheckpoint
    /\ last_save = "none"
    /\ committed = DefaultCheckpoint
    /\ clock = 0
    /\ rgot = NotLoaded
    /\ racc = {}

\* process_pages is not in use
PagesOff ==
    /\ pages = <<>>
    /\ page_idx = 0
    /\ pages_all_chunks = <<>>
    /\ page_results = <<>>

\* result slot of generate_embeddings_batch before any call
NothingReturned == [kind |-> "nothing", value |-> <<>>]

\* no EmbeddingService is looked at on its own
ServiceOff ==
    /\ settings_provider = "openai"
    /\ settings_key = TRUE
    /\ svc_state = "unbuilt"
    /\ provider = ""
    /\ client = FALSE
    /\ self_total_tokens = 0
    /\ gpc = "idle"
    /\ call_texts = <<>>
    /\ gattempt = 0
    /\ returned = NothingReturned
    /\ provider_requests = 0
    /\ ncalls = 0

\* no Retriever call made yet
NothingRetrieved ==
    [op |-> "none", arg |-> 0, embedded |-> FALSE, vector_results |-> <<>>,
     results |-> <<>>]

\* the vector store and the retriever are not looked at on their own
StoreOff ==
    /\ collection = <<>>
    /\ chunk_rows = {}
    /\ uploads = <<>>
    /\ retrieved = NothingRetrieved

\* no text is followed through split_text_by_sentences
TextOff ==
    /\ page_text = <<>>
    /\ text_sentences = <<>>

\* no upsert_embeddings call is followed batch by batch
UpsertOff ==
    /\ up_data = <<>>
    /\ up_batch_size = UPSERT_BATCH_SIZE
    /\ up_i = 0
    /\ up_total = 0
    /\ upc = "off"
    /\ up_returned = 0
    /\ up_sent = <<>>
    /\ up_before = <<>>

Init ==
    PipeInit /\ ChunkerOff /\ FileOff /\ PagesOff /\ ServiceOff /\ StoreOff /\ TextOff
    /\ UpsertOff

persistent == <<storage, batch_size, outsidePipe>>

\* ---------------------------------------------------------------- actions
\* The head of the for loop and the first lines of its body: with a group left,
\* texts and chunk_ids are extracted and generate_embeddings_batch is called
\* (the call is logged); with none left the loop is over.
EnterLoopBody(log, groups, idx) ==
    IF idx < Len(groups) THEN Append(log, ChunkIds(groups[idx + 1])) ELSE log

\* index_all_chunks(resume=r) enters process_all_chunks: load the checkpoint,
\* read the store, filter, and either return at once or build the batches
\* and make the first call.  The process is then followed from one blocking
\* call to the next.
StartRun(r) ==
    /\ pc = "idle"
    /\ run_no < MaxRuns
    /\ run_no' = run_no + 1
    /\ LET checkpoint == StartCheckpoint(r, checkpoint_file)
           done == ListToSet(checkpoint.processed_chunk_ids)
           rows == storage
           pending == FilterPending(rows, done)
       IN /\ resume' = r
          /\ processed_ids' = done
          /\ loaded_ids' = done
          /\ all_chunks' = rows
          /\ chunks_to_process' = pending
          /\ IF pending = <<>>
             THEN /\ result' = AllDoneResult(rows)
                  /\ batches' = <<>>
                  /\ pc' = "returned"
             ELSE /\ result' = NoResult
                  /\ batches' = MakeBatches(pending, batch_size)
                  /\ pc' = "embedding"
    /\ batch_idx' = 0
    /\ attempt' = 0
    /\ waited' = 0
    /\ embeddings_data' = <<>>
    /\ calls' = EnterLoopBody(<<>>, batches', 0)
    /\ UNCHANGED <<persistent, checkpoint_file, vector_store, saves, delivered, prev>>

\* wait_exponential(multiplier=1, min=4, max=10) of embedding_service.py:75
WAIT_MULTIPLIER == 1
WAIT_MIN == 4
WAIT_MAX == 10
\* tenacity's exp_base default
WAIT_EXP_BASE == 2

\* The exponent tenacity gives the first retry: exp_base ** (attempt_number - 1)
\* in its current releases, exp_base ** attempt_number in older ones.
TenacityFirstExponent == {0, 1}

Max(a, b) == IF a >= b THEN a ELSE b

\* tenacity.wait_exponential.__call__ after attempt number attempt_number failed:
\* max(max(0, min), min(multiplier * exp_base ** exponent, max))
wait_exponential(attempt_number, first) ==
    LET exp == WAIT_EXP_BASE ^ (attempt_number - 1 + first)
        wait == WAIT_MULTIPLIER * exp
    IN Max(Max(0, WAIT_MIN), Min(wait, WAIT_MAX))

\* an attempt of the call in flight fails and tenacity sleeps and tries again
\* mutant: tenacity does not count the failed attempt
AttemptFails_NoCount ==
    /\ pc = "embedding"
    /\ attempt + 1 < STOP_AFTER_ATTEMPT
    /\ attempt' = attempt
    /\ \E first \in TenacityFirstExponent : waited' = wait_exponential(attempt + 1, first)
    /\ UNCHANGED <<persistent, checkpoint_file, vector_store, pc, resume, processed_ids,
                   all_chunks, chunks_to_process, batches, batch_idx, embeddings_data,
                   result, loaded_ids, calls, saves, delivered, run_no, prev>>

AttemptFails ==
    /\ pc = "embedding"
    /\ attempt + 1 < STOP_AFTER_ATTEMPT
    /\ attempt' = attempt + 1
    /\ \E first \in TenacityFirstExponent : waited' = wait_exponential(attempt', first)
    /\ UNCHANGED <<persistent, checkpoint_file, vector_store, pc, resume, processed_ids,
                   all_chunks, chunks_to_process, batches, batch_idx, embeddings_data,
                   result, loaded_ids, calls, saves, delivered, run_no, prev>>

\* mutant: the processed set is replaced by the group's ids, not updated
GroupDone_Replaces ==
    LET batch == batches[batch_idx + 1]
        embeddings == [i \in 1..Len(batch) |-> 1000 + batch[i].text]
        done == Range([i \in 1..Len(batch) |-> batch[i].chunk_id])
    IN /\ embeddings_data' = embeddings_data \o
              [i \in 1..Len(batch) |->
                  [chunk_id |-> batch[i].chunk_id, embedding |-> embeddings[i],
                   source_page |-> batch[i].source_page,
                   token_count |-> batch[i].token_count]]
       /\ processed_ids' = done
       /\ IF (batch_idx + 1) % SAVE_EVERY = 0
          THEN /\ checkpoint_file' = [exists |-> TRUE,
                                      processed_chunk_ids |-> SetToList(done),
                                      last_batch |-> batch_idx + 1]
               /\ saves' = Append(saves, checkpoint_file')
          ELSE UNCHANGED <<checkpoint_file, saves>>
       /\ batch_idx' = batch_idx + 1

\* what the try block does with the response of a successful attempt
GroupDone ==
    LET batch == CurrentBatch
        embeddings == ProviderResponse(Texts(batch))
        done == processed_ids \cup Range(ChunkIds(batch))
    IN /\ embeddings_data' = embeddings_data \o CombineWithMetadata(batch, embeddings)
       /\ processed_ids' = done
       /\ IF (batch_idx + 1) % SAVE_EVERY = 0
          THEN /\ checkpoint_file' = save_checkpoint(SetToList(done), batch_idx + 1)
               /\ saves' = Append(saves, checkpoint_file')
          ELSE UNCHANGED <<checkpoint_file, saves>>
       /\ batch_idx' = batch_idx + 1

\* an attempt succeeds: the group is done and the next call, if any, is made
AttemptSucceeds ==
    /\ pc = "embedding"
    /\ GroupDone
    /\ attempt' = 0
    /\ waited' = 0
    /\ calls' = EnterLoopBody(calls, batches, batch_idx')
    /\ pc' = IF batch_idx' < Len(batches) THEN "embedding" ELSE "after_loop"
    /\ UNCHANGED <<persistent, vector_store, resume, all_chunks, chunks_to_process,
                   batches, result, loaded_ids, delivered, run_no, prev>>

\* mutant: the handler re-raises without saving
ErrorHandler_NoSave(done, idx) == checkpoint_file

\* except Exception: save_checkpoint(list(processed_ids), batch_idx); raise
ErrorHandler(done, idx) == save_checkpoint(SetToList(done), idx)

\* what a finished invocation leaves behind for the history
RunSummary(outcome, file, indexed) ==
    [resume |-> resume, outcome |-> outcome, loaded |-> loaded_ids,
     chunks |-> ChunkIds(all_chunks),
     groups |-> [k \in 1..Len(batches) |-> ChunkIds(batches[k])],
     completed |-> batch_idx, calls |-> calls,
     embeddings |-> ChunkIds(result.embeddings),
     result |-> result, uploaded_count |-> indexed.uploaded_count,
     store_calls |-> indexed.store_calls,
     collection_info |-> indexed.collection_info,
     checkpoint |-> file,
     saves |-> IF outcome = "failed" THEN Append(saves, file) ELSE saves]

\* the process ends: its memory is gone, the files and the collection stay
EndRun(outcome, file, indexed) ==
    /\ prev' = RunSummary(outcome, file, indexed)
    /\ pc' = "idle"
    /\ resume' = TRUE
    /\ processed_ids' = {}
    /\ all_chunks' = <<>>
    /\ chunks_to_process' = <<>>
    /\ batches' = <<>>
    /\ batch_idx' = 0
    /\ attempt' = 0
    /\ waited' = 0
    /\ embeddings_data' = <<>>
    /\ result' = NoResult
    /\ loaded_ids' = {}
    /\ calls' = <<>>
    /\ saves' = <<>>

\* mutant: the first failed attempt already ends the run
TerminalFailure_AnyAttempt ==
    /\ pc = "embedding"
    /\ attempt + 1 <= STOP_AFTER_ATTEMPT
    /\ checkpoint_file' = ErrorHandler(processed_ids, batch_idx)
    /\ EndRun("failed", checkpoint_file', NotIndexed)
    /\ UNCHANGED <<persistent, vector_store, delivered, run_no>>

\* the last attempt fails: tenacity raises, the handler saves and re-raises,
\* index_all_chunks lets the error through to main(), which returns False
TerminalFailure ==
    /\ pc = "embedding"
    /\ attempt + 1 = STOP_AFTER_ATTEMPT
    /\ checkpoint_file' = ErrorHandler(processed_ids, batch_idx)
    /\ EndRun("failed", checkpoint_file', NotIndexed)
    /\ UNCHANGED <<persistent, vector_store, delivered, run_no>>

\* mutant: the run returns without the final checkpoint
FinishRun_NoFinalSave ==
    /\ pc = "after_loop"
    /\ result' = FinalResult(all_chunks, embeddings_data, processed_ids)
    /\ pc' = "returned"
    /\ UNCHANGED <<persistent, checkpoint_file, saves, vector_store, resume, processed_ids,
                   all_chunks, chunks_to_process, batches, batch_idx, attempt, waited,
                   embeddings_data, loaded_ids, calls, delivered, run_no, prev>>

\* after the loop: the final checkpoint and the return
FinishRun ==
    /\ pc = "after_loop"
    /\ checkpoint_file' = save_checkpoint(SetToList(processed_ids), Len(batches))
    /\ saves' = Append(saves, checkpoint_file')
    /\ result' = FinalResult(all_chunks, embeddings_data, processed_ids)
    /\ pc' = "returned"
    /\ UNCHANGED <<persistent, vector_store, resume, processed_ids, all_chunks,
                   chunks_to_process, batches, batch_idx, attempt, waited,
                   embeddings_data, loaded_ids, calls, delivered, run_no, prev>>

\* KeyboardInterrupt inside the loop: not an Exception, so the handler of
\* process_all_chunks does not run; main() catches it and returns False
Interrupt ==
    /\ pc \in {"embedding", "after_loop"}
    /\ EndRun("interrupted", checkpoint_file, NotIndexed)
    /\ UNCHANGED <<persistent, checkpoint_file, vector_store, delivered, run_no>>

\* the process is killed: no handler runs
Crash ==
    /\ pc \in {"embedding", "after_loop", "returned"}
    /\ EndRun("crashed", checkpoint_file, NotIndexed)
    /\ UNCHANGED <<persistent, checkpoint_file, vector_store, delivered, run_no>>

\* index_all_chunks with no new embeddings: the upload is skipped
SkipUpload ==
    /\ pc = "returned"
    /\ result.embeddings = <<>>
    /\ EndRun("done", checkpoint_file, IndexedNothing(vector_store))
    /\ UNCHANGED <<persistent, checkpoint_file, vector_store, delivered, run_no>>

\* index_all_chunks uploads the new embeddings
Upload ==
    /\ pc = "returned"
    /\ result.embeddings # <<>>
    /\ vector_store' = upsert_embeddings(vector_store, result.embeddings)
    /\ delivered' = delivered \cup Range(ChunkIds(result.embeddings))
    /\ EndRun("done", checkpoint_file, Indexed(result.embeddings, vector_store))
    /\ UNCHANGED <<persistent, checkpoint_file, run_no>>

\* the vector store refuses the upload: the error leaves index_all_chunks
UploadFails ==
    /\ pc = "returned"
    /\ result.embeddings # <<>>
    /\ EndRun("upload_failed", checkpoint_file, IndexFailed)
    /\ UNCHANGED <<persistent, checkpoint_file, vector_store, delivered, run_no>>

Next ==
    \/ \E r \in BOOLEAN : StartRun(r)
    \/ AttemptFails
    \/ AttemptSucceeds
    \/ TerminalFailure
    \/ FinishRun
    \/ Interrupt
    \/ Crash
    \/ SkipUpload
    \/ Upload
    \/ UploadFails

Spec == Init /\ [][Next]_vars

\* ===================================================================
\* SmartChunker
\* ===================================================================
\* A word is written as the number of tokens the encoding gives it, a
\* sentence as its words in order, a text as its words in order.

\* the sentences a source unit is made of
SentencePool ==
    {<<1>>, <<2>>, <<3>>, <<1, 1>>, <<2, 3>>, <<1, 1, 1, 1, 1>>, <<5>>}

RECURSIVE Sum(_)
Sum(s) == IF s = <<>> THEN 0 ELSE Head(s) + Sum(Tail(s))

\* count_tokens of a text given as its words: len(self.encoding.encode(text))
count_tokens(words) == Sum(words)

\* count_tokens(word + " "): the trailing blank is a token of its own
count_tokens_word_blank(word) == word + 1

\* " ".join(sentences)
Join(sents) == Flatten(sents)

\* SmartChunker.__init__ (0 stands for None)
InitChunkSize(arg) == IF arg # 0 THEN arg ELSE CHUNK_SIZE

InitOverlap(arg) == IF arg # 0 THEN arg ELSE CHUNK_OVERLAP

\* the characters of str(n) for a natural number, as digits
RECURSIVE Digits(_)
Digits(n) == IF n < 10 THEN <<n>> ELSE Append(Digits(n \div 10), n % 10)

\* the character '_'
UNDERSCORE == 0 - 1

\* f"{metadata.get('page_number', 0)}_{chunk_id}"
FormatChunkId(page, id) == Digits(page) \o <<UNDERSCORE>> \o Digits(id)

\* mutant: the chunk_id is the running index alone
create_chunk_IndexOnly(sents, id, page, token_count) ==
    [chunk_id |-> Digits(id), text |-> Join(sents), token_count |-> token_count,
     word_count |-> Len(Join(sents)), source_page |-> page, sentences |-> sents]

create_chunk(sents, id, page, token_count) ==
    [chunk_id |-> FormatChunkId(page, id), text |-> Join(sents), token_count |-> token_count,
     word_count |-> Len(Join(sents)), source_page |-> page, sentences |-> sents]

\* the for loop of _get_overlap_text, walking the sentences from the last
RECURSIVE OverlapWalk(_, _, _, _)
\* mutant: the walk never stops at the overlap budget
OverlapWalk_NoBudget(sents, i, overlap_tokens, ov) == SubSeq(sents, 1, i)

OverlapWalk(sents, i, overlap_tokens, ov) ==
    IF i = 0 THEN <<>>
    ELSE LET sentence_tokens == count_tokens(sents[i])
         IN IF overlap_tokens + sentence_tokens <= ov
            THEN Append(OverlapWalk(sents, i - 1, overlap_tokens + sentence_tokens, ov),
                        sents[i])
            ELSE <<>>

\* mutant: the walk stops after the last sentence
get_overlap_text_LastOnly(sents, total_tokens) ==
    IF sents # <<>> /\ count_tokens(sents[Len(sents)]) <= overlap
    THEN <<sents[Len(sents)]>> ELSE <<>>

get_overlap_text(sents, total_tokens) == OverlapWalk(sents, Len(sents), 0, overlap)

\* the for loop of _split_long_sentence over the words not yet packed
RECURSIVE SplitWalk(_, _, _, _, _, _)
SplitWalk(words, temp_chunk, temp_tokens, id, page, size) ==
    IF words = <<>>
    THEN IF temp_chunk # <<>>
         THEN <<create_chunk(<<temp_chunk>>, id, page, temp_tokens)>>
         ELSE <<>>
    ELSE LET word == Head(words)
             word_tokens == count_tokens_word_blank(word)
         IN IF temp_tokens + word_tokens > size
            THEN IF temp_chunk # <<>>
                 THEN <<create_chunk(<<temp_chunk>>, id, page, temp_tokens)>>
                      \o SplitWalk(Tail(words), <<word>>, word_tokens, id + 1, page, size)
                 ELSE SplitWalk(Tail(words), <<word>>, word_tokens, id, page, size)
            ELSE SplitWalk(Tail(words), Append(temp_chunk, word),
                           temp_tokens + word_tokens, id, page, size)

\* mutant: the words left in temp_chunk after the loop are not emitted
split_long_sentence_DropsRest(sentence, page, start_chunk_id) ==
    LET packed == SplitWalk(sentence, <<>>, 0, start_chunk_id, page, chunk_size)
    IN SubSeq(packed, 1, Len(packed) - 1)

split_long_sentence(sentence, page, start_chunk_id) ==
    SplitWalk(sentence, <<>>, 0, start_chunk_id, page, chunk_size)

\* the pipeline is not in use
PipeOff ==
    /\ storage = <<>>
    /\ batch_size = EMBEDDING_BATCH_SIZE
    /\ checkpoint_file = NoCheckpointFile
    /\ vector_store = <<>>
    /\ pc = "off"
    /\ resume = TRUE
    /\ processed_ids = {}
    /\ all_chunks = <<>>
    /\ chunks_to_process = <<>>
    /\ batches = <<>>
    /\ batch_idx = 0
    /\ attempt = 0
    /\ waited = 0
    /\ embeddings_data = <<>>
    /\ result = NoResult
    /\ loaded_ids = {}
    /\ calls = <<>>
    /\ saves = <<>>
    /\ delivered = {}
    /\ run_no = 0
    /\ prev = NoRun

UnitsUpTo(n) == UNION {[1..k -> SentencePool] : k \in 0..n}

\* longer units of sentences that each fit a small chunk_size
ScenarioUnits ==
    {<<<<1>>, <<1>>, <<2>>, <<1>>>>, <<<<1>>, <<1>>, <<1>>, <<2>>, <<1>>>>}

\* a chunker is constructed and chunk_text is entered on one source unit
ChunkerInit ==
    /\ chunk_size \in {InitChunkSize(arg) : arg \in {0} \cup 2..MaxChunkSize}
    /\ overlap_arg \in 0..(MaxChunkSize - 1)
    /\ overlap = InitOverlap(overlap_arg)
    /\ page_number = 1
    /\ sentences \in UnitsUpTo(MaxSentences) \cup ScenarioUnits
    /\ pos = 0
    /\ chunks = <<>>
    /\ current_chunk = <<>>
    /\ current_tokens = 0
    /\ chunk_id = 0
    /\ cpc = "loop"
    /\ trail = <<>>

NextSentence == sentences[pos + 1]

\* one entry of the history: the branch taken for the sentence, the buffer
\* it met, the overlap selected, and where its chunks went in the output
Step(kind, tail, emitted) ==
    [kind |-> kind, sentence |-> NextSentence, buffer |-> current_chunk,
     tail |-> tail, at |-> Len(chunks), emitted |-> emitted]

\* loop body, "if sentence_tokens > self.chunk_size": flush, split by words
SplitOversized ==
    /\ cpc = "loop"
    /\ pos < Len(sentences)
    /\ count_tokens(NextSentence) > chunk_size
    /\ LET flushed == IF current_chunk # <<>>
                      THEN <<create_chunk(current_chunk, chunk_id, page_number,
                                          current_tokens)>>
                      ELSE <<>>
           word_chunks == split_long_sentence(NextSentence, page_number,
                                              chunk_id + Len(flushed))
       IN /\ chunks' = chunks \o flushed \o word_chunks
          /\ chunk_id' = chunk_id + Len(flushed) + Len(word_chunks)
          /\ trail' = Append(trail, Step("split", <<>>, Len(flushed) + Len(word_chunks)))
    /\ current_chunk' = <<>>
    /\ current_tokens' = 0
    /\ pos' = pos + 1
    /\ UNCHANGED <<outsideChunker, chunk_size, overlap, overlap_arg, page_number, sentences, cpc>>

\* mutant: the next chunk starts with the sentence alone
FlushWithOverlap_NoOverlap ==
    /\ cpc = "loop"
    /\ pos < Len(sentences)
    /\ count_tokens(NextSentence) <= chunk_size
    /\ current_tokens + count_tokens(NextSentence) > chunk_size
    /\ chunks' = Append(chunks, create_chunk(current_chunk, chunk_id, page_number,
                                             current_tokens))
    /\ chunk_id' = chunk_id + 1
    /\ current_chunk' = <<NextSentence>>
    /\ current_tokens' = count_tokens(NextSentence)
    /\ trail' = Append(trail, Step("flush", get_overlap_text(current_chunk, current_tokens), 1))
    /\ pos' = pos + 1
    /\ UNCHANGED <<outsideChunker, chunk_size, overlap, overlap_arg, page_number, sentences, cpc>>

\* loop body, "if current_tokens + sentence_tokens > self.chunk_size": flush
\* and start the next chunk with the overlap and the sentence
FlushWithOverlap ==
    /\ cpc = "loop"
    /\ pos < Len(sentences)
    /\ count_tokens(NextSentence) <= chunk_size
    /\ current_tokens + count_tokens(NextSentence) > chunk_size
    /\ chunks' = Append(chunks, create_chunk(current_chunk, chunk_id, page_number,
                                             current_tokens))
    /\ chunk_id' = chunk_id + 1
    /\ LET overlap_chunk == get_overlap_text(current_chunk, current_tokens)
       IN /\ current_chunk' = overlap_chunk \o <<NextSentence>>
          /\ current_tokens' = count_tokens(Join(current_chunk'))
          /\ trail' = Append(trail, Step("flush", overlap_chunk, 1))
    /\ pos' = pos + 1
    /\ UNCHANGED <<outsideChunker, chunk_size, overlap, overlap_arg, page_number, sentences, cpc>>

\* mutant: the sentence is put in front of the current chunk
AppendSentence_Prepends ==
    /\ cpc = "loop"
    /\ pos < Len(sentences)
    /\ count_tokens(NextSentence) <= chunk_size
    /\ current_tokens + count_tokens(NextSentence) <= chunk_size
    /\ current_chunk' = <<NextSentence>> \o current_chunk
    /\ current_tokens' = current_tokens + count_tokens(NextSentence)
    /\ trail' = Append(trail, Step("append", <<>>, 0))
    /\ pos' = pos + 1
    /\ UNCHANGED <<outsideChunker, chunk_size, overlap, overlap_arg, page_number, sentences, chunks,
                   chunk_id>>
    /\ UNCHANGED cpc

\* loop body, else: the sentence joins the current chunk
AppendSentence ==
    /\ cpc = "loop"
    /\ pos < Len(sentences)
    /\ count_tokens(NextSentence) <= chunk_size
    /\ current_tokens + count_tokens(NextSentence) <= chunk_size
    /\ current_chunk' = Append(current_chunk, NextSentence)
    /\ current_tokens' = current_tokens + count_tokens(NextSentence)
    /\ trail' = Append(trail, Step("append", <<>>, 0))
    /\ pos' = pos + 1
    /\ UNCHANGED <<outsideChunker, chunk_size, overlap, overlap_arg, page_number, sentences, chunks,
                   chunk_id>>
    /\ UNCHANGED cpc

\* after the loop: "if current_chunk" the last chunk, then return chunks
\* mutant: the sentences still buffered at the end are dropped
FinalChunk_NoFlush ==
    /\ cpc = "loop"
    /\ pos = Len(sentences)
    /\ chunks' = chunks
    /\ cpc' = "done"
    /\ UNCHANGED <<outsideChunker, chunk_size, overlap, overlap_arg, page_number, sentences, pos,
                   current_chunk, current_tokens, chunk_id, trail>>

FinalChunk ==
    /\ cpc = "loop"
    /\ pos = Len(sentences)
    /\ chunks' = IF current_chunk # <<>>
                 THEN Append(chunks, create_chunk(current_chunk, chunk_id, page_number,
                                                  current_tokens))
                 ELSE chunks
    /\ cpc' = "done"
    /\ UNCHANGED <<outsideChunker, chunk_size, overlap, overlap_arg, page_number, sentences, pos,
                   current_chunk, current_tokens, chunk_id, trail>>

ChunkerNext ==
    \/ SplitOversized
    \/ FlushWithOverlap
    \/ AppendSentence
    \/ FinalChunk

InitChunker ==
    PipeOff /\ ChunkerInit /\ FileOff /\ PagesOff /\ ServiceOff /\ StoreOff /\ TextOff
    /\ UpsertOff

SpecChunker == InitChunker /\ [][ChunkerNext]_vars

\* ===================================================================
\* SmartChunker.process_pages
\* ===================================================================
\* page numbers whose decimal forms share digits
PageNumbers == {1, 2, 11}

\* the sentences of a page: none, some that fit, an oversized one among others
PageUnits ==
    {<<>>, <<<<1>>, <<2>>>>, <<<<1, 1, 1, 1, 1>>>>, <<<<2>>, <<2, 3>>, <<1>>>>}

PageSet == [page_number : PageNumbers, sentences : PageUnits]

\* a chunker is constructed and process_pages is entered on some pages
PagesInit ==
    /\ chunk_size \in {InitChunkSize(arg) : arg \in {0, 2, 3}}
    /\ overlap_arg \in {0, 1}
    /\ overlap = InitOverlap(overlap_arg)
    /\ page_number = 0
    /\ sentences = <<>>
    /\ pos = 0
    /\ chunks = <<>>
    /\ current_chunk = <<>>
    /\ current_tokens = 0
    /\ chunk_id = 0
    /\ cpc = "off"
    /\ trail = <<>>
    /\ pages \in UNION {[1..k -> PageSet] : k \in 0..MaxPages}
    /\ page_idx = 0
    /\ pages_all_chunks = <<>>
    /\ page_results = <<>>

\* mutant: the running index goes on from the page before
EnterChunkText_KeepsIndex ==
    /\ cpc = "off"
    /\ page_idx < Len(pages)
    /\ page_number' = pages[page_idx + 1].page_number
    /\ sentences' = pages[page_idx + 1].sentences
    /\ pos' = 0
    /\ chunks' = <<>>
    /\ current_chunk' = <<>>
    /\ current_tokens' = 0
    /\ chunk_id' = Len(pages_all_chunks)
    /\ cpc' = "loop"
    /\ trail' = <<>>
    /\ UNCHANGED <<outsideChunker, chunk_size, overlap, overlap_arg>>

\* the for loop of process_pages calls chunk_text on the next page; chunk_text
\* starts with its locals fresh
EnterChunkText ==
    /\ cpc = "off"
    /\ page_idx < Len(pages)
    /\ page_number' = pages[page_idx + 1].page_number
    /\ sentences' = pages[page_idx + 1].sentences
    /\ pos' = 0
    /\ chunks' = <<>>
    /\ current_chunk' = <<>>
    /\ current_tokens' = 0
    /\ chunk_id' = 0
    /\ cpc' = "loop"
    /\ trail' = <<>>
    /\ UNCHANGED <<outsideChunker, chunk_size, overlap, overlap_arg>>

\* chunk_text has returned: all_chunks.extend(page_chunks)
ExtendAllChunks ==
    /\ cpc = "done"
    /\ page_idx < Len(pages)
    /\ pages_all_chunks' = pages_all_chunks \o chunks
    /\ page_results' = Append(page_results, chunks)
    /\ page_idx' = page_idx + 1
    /\ cpc' = "off"
    /\ chunks' = <<>>
    /\ current_chunk' = <<>>
    /\ current_tokens' = 0
    /\ chunk_id' = 0
    /\ pos' = 0
    /\ trail' = <<>>
    /\ UNCHANGED <<outsideChunking, pages, chunk_size, overlap, overlap_arg, page_number, sentences>>

PagesNext ==
    \/ EnterChunkText
    \/ ChunkerNext
    \/ ExtendAllChunks

InitPages ==
    PipeOff /\ FileOff /\ PagesInit /\ ServiceOff /\ StoreOff /\ TextOff
    /\ UpsertOff

SpecPages == InitPages /\ [][PagesNext]_vars

\* ===================================================================
\* The checkpoint file: save_checkpoint and load_checkpoint on its text
\* ===================================================================
\* The text json.dump writes is a sequence of pieces: the punctuation and keys
\* below, and the values between them.
\* '{"processed_chunk_ids": ['
J_OPEN == 0 - 1
\* '], "last_batch": '
J_LAST_BATCH == 0 - 2
\* ', "timestamp": '
J_TIMESTAMP == 0 - 3
\* '}'
J_CLOSE == 0 - 4

\* mutant: the list is written without its last element
json_dump_DropsLast(checkpoint) ==
    <<J_OPEN>> \o SubSeq(checkpoint.processed_chunk_ids, 1,
                         Len(checkpoint.processed_chunk_ids) - 1)
        \o <<J_LAST_BATCH, checkpoint.last_batch, J_TIMESTAMP, checkpoint.timestamp, J_CLOSE>>

\* json.dump(checkpoint, f, indent=2): the whole text of one checkpoint
json_dump(checkpoint) ==
    <<J_OPEN>> \o checkpoint.processed_chunk_ids
        \o <<J_LAST_BATCH, checkpoint.last_batch, J_TIMESTAMP, checkpoint.timestamp, J_CLOSE>>

\* whether json.load accepts the text: one whole object, nothing missing
json_valid(text) ==
    /\ Len(text) >= 6
    /\ text[1] = J_OPEN
    /\ \A i \in 2..(Len(text) - 5) : text[i] >= 0
    /\ text[Len(text) - 4] = J_LAST_BATCH
    /\ text[Len(text) - 3] >= 0
    /\ text[Len(text) - 2] = J_TIMESTAMP
    /\ text[Len(text) - 1] >= 0
    /\ text[Len(text)] = J_CLOSE

\* load_checkpoint: the default without a file, else json.load of the text,
\* which raises JSONDecodeError (ok = FALSE) on anything but a whole object
load_checkpoint_text(f) ==
    IF ~f.exists
    THEN [done |-> TRUE, ok |-> TRUE, processed_chunk_ids |-> <<>>, last_batch |-> 0]
    ELSE IF json_valid(f.text)
         THEN [done |-> TRUE, ok |-> TRUE,
               processed_chunk_ids |-> SubSeq(f.text, 2, Len(f.text) - 5),
               last_batch |-> f.text[Len(f.text) - 3]]
         ELSE [done |-> TRUE, ok |-> FALSE, processed_chunk_ids |-> <<>>, last_batch |-> 0]

\* the arguments save_checkpoint is called with: list(processed_ids) of the
\* first n chunks and a batch number
SaveArgs ==
    {[processed_chunk_ids |-> [i \in 1..n |-> i], last_batch |-> b] :
        n \in 0..MaxSavedIds, b \in 0..MaxSavedIds}

\* a processor is constructed on a checkpoint directory without a file
FileInit ==
    /\ disk_file = NoFile
    /\ wpc = "idle"
    /\ wbuf = <<>>
    /\ wstate = DefaultCheckpoint
    /\ last_save = "none"
    /\ committed = DefaultCheckpoint
    /\ clock = 0
    /\ rgot = NotLoaded
    /\ racc = {}

\* save_checkpoint up to and including open(self.checkpoint_file, 'w'): the
\* checkpoint dict is built, the file is created or truncated to nothing
SaveOpen(args) ==
    /\ wpc = "idle"
    /\ clock < MaxSaves
    /\ clock' = clock + 1
    /\ wstate' = args
    /\ wbuf' = json_dump([processed_chunk_ids |-> args.processed_chunk_ids,
                          last_batch |-> args.last_batch, timestamp |-> clock'])
    /\ disk_file' = [exists |-> TRUE, text |-> <<>>]
    /\ wpc' = "open"
    /\ UNCHANGED <<outsideFile, last_save, committed, rgot, racc>>

\* json.dump inside the with block: part of the text reaches the file
SaveWrite ==
    /\ wpc = "open"
    /\ \E k \in 1..(Len(wbuf) - 1) :
          /\ disk_file' = [disk_file EXCEPT !.text = disk_file.text \o SubSeq(wbuf, 1, k)]
          /\ wbuf' = SubSeq(wbuf, k + 1, Len(wbuf))
    /\ UNCHANGED <<outsideFile, wpc, wstate, last_save, committed, clock, rgot, racc>>

\* the with block ends: the rest is flushed, the file is closed, the call returns
SaveClose ==
    /\ wpc = "open"
    /\ disk_file' = [disk_file EXCEPT !.text = disk_file.text \o wbuf]
    /\ wbuf' = <<>>
    /\ wpc' = "idle"
    /\ last_save' = "complete"
    /\ committed' = wstate
    /\ UNCHANGED <<outsideFile, wstate, clock, rgot, racc>>

\* the process is killed inside save_checkpoint: what was not written is lost;
\* the next process starts with the file as it is
SaveKilled ==
    /\ wpc = "open"
    /\ wbuf' = <<>>
    /\ wpc' = "idle"
    /\ last_save' = "torn"
    /\ UNCHANGED <<outsideFile, disk_file, wstate, committed, clock, rgot, racc>>

\* another process calls load_checkpoint
LoadCheckpoint ==
    /\ wpc \in {"idle", "open"}
    /\ rgot' = load_checkpoint_text(disk_file)
    /\ racc' = {committed} \cup (IF wpc = "open" \/ last_save = "torn" THEN {wstate} ELSE {})
    /\ UNCHANGED <<outsideFile, disk_file, wpc, wbuf, wstate, last_save, committed, clock>>

CheckpointNext ==
    \/ \E args \in SaveArgs : SaveOpen(args)
    \/ SaveWrite
    \/ SaveClose
    \/ SaveKilled
    \/ LoadCheckpoint

InitCheckpoint ==
    PipeOff /\ ChunkerOff /\ FileInit /\ PagesOff /\ ServiceOff /\ StoreOff /\ TextOff
    /\ UpsertOff

SpecCheckpoint == InitCheckpoint /\ [][CheckpointNext]_vars

\* ===================================================================
\* EmbeddingService: construction and generate_embeddings_batch
\* ===================================================================
\* provider names: the two the code has branches for, one it has none for,
\* and "" for a name that is not given (None or empty)
ProviderNames == {"openai", "cohere", "voyage", ""}

\* the texts of one call
TextLists == UNION {[1..k -> 1..2] : k \in 0..MaxTexts}

\* a process starts with some settings and no EmbeddingService
ServiceInit ==
    /\ settings_provider \in ProviderNames
    /\ settings_key \in BOOLEAN
    /\ svc_state = "unbuilt"
    /\ provider = ""
    /\ client = FALSE
    /\ self_total_tokens = 0
    /\ gpc = "idle"
    /\ call_texts = <<>>
    /\ gattempt = 0
    /\ returned = NothingReturned
    /\ provider_requests = 0
    /\ ncalls = 0

\* EmbeddingService.__init__(provider = arg)
Construct(arg) ==
    /\ svc_state = "unbuilt"
    /\ LET p == IF arg # "" THEN arg ELSE settings_provider
       IN /\ provider' = p
          /\ IF p = ""
             THEN svc_state' = "ValueError" /\ client' = FALSE
             ELSE IF p = "openai"
                  THEN IF ~settings_key
                       THEN svc_state' = "ValueError" /\ client' = FALSE
                       ELSE svc_state' = "built" /\ client' = TRUE
                  ELSE svc_state' = "built" /\ client' = FALSE
    /\ UNCHANGED <<outsideService, settings_provider, settings_key, self_total_tokens,
                   gpc, call_texts, gattempt, returned, provider_requests, ncalls>>

\* generate_embeddings_batch(ts) is called: tenacity starts attempt 1
CallBatch(ts) ==
    /\ svc_state = "built"
    /\ gpc = "idle"
    /\ ncalls < MaxCalls
    /\ call_texts' = ts
    /\ gattempt' = 1
    /\ gpc' = "body"
    /\ ncalls' = ncalls + 1
    /\ returned' = NothingReturned
    /\ UNCHANGED <<outsideService, settings_provider, settings_key, svc_state,
                   provider, client, self_total_tokens, provider_requests>>

\* "if not texts: return []"
ReturnEmpty ==
    /\ gpc = "body"
    /\ call_texts = <<>>
    /\ returned' = [kind |-> "list", value |-> <<>>]
    /\ gpc' = "idle"
    /\ UNCHANGED <<outsideService, settings_provider, settings_key, svc_state,
                   provider, client, self_total_tokens, call_texts, gattempt,
                   provider_requests, ncalls>>

\* the body raised: tenacity sleeps and runs it again, or gives up after
\* stop_after_attempt(3)
Raised ==
    IF gattempt < STOP_AFTER_ATTEMPT
    THEN gattempt' = gattempt + 1 /\ gpc' = "body" /\ returned' = returned
    ELSE gattempt' = gattempt /\ gpc' = "idle"
         /\ returned' = [kind |-> "RetryError", value |-> <<>>]

\* openai branch, the request succeeds
ProviderReplies(usage) ==
    /\ gpc = "body"
    /\ call_texts # <<>>
    /\ provider = "openai"
    /\ client
    /\ provider_requests' = provider_requests + 1
    /\ self_total_tokens' = self_total_tokens + usage
    /\ returned' = [kind |-> "list", value |-> ProviderResponse(call_texts)]
    /\ gpc' = "idle"
    /\ UNCHANGED <<outsideService, settings_provider, settings_key, svc_state,
                   provider, client, call_texts, gattempt, ncalls>>

\* openai branch, the request raises
ProviderRaises ==
    /\ gpc = "body"
    /\ call_texts # <<>>
    /\ provider = "openai"
    /\ client
    /\ provider_requests' = provider_requests + 1
    /\ Raised
    /\ UNCHANGED <<outsideService, settings_provider, settings_key, svc_state,
                   provider, client, self_total_tokens, call_texts, ncalls>>

\* cohere branch: self.client was never assigned, AttributeError
CohereNoClient ==
    /\ gpc = "body"
    /\ call_texts # <<>>
    /\ provider = "cohere"
    /\ ~client
    /\ Raised
    /\ UNCHANGED <<outsideService, settings_provider, settings_key, svc_state,
                   provider, client, self_total_tokens, call_texts,
                   provider_requests, ncalls>>

\* neither branch: the function ends without a return statement
FallsThrough ==
    /\ gpc = "body"
    /\ call_texts # <<>>
    /\ provider \notin {"openai", "cohere"}
    /\ returned' = [kind |-> "None", value |-> <<>>]
    /\ gpc' = "idle"
    /\ UNCHANGED <<outsideService, settings_provider, settings_key, svc_state,
                   provider, client, self_total_tokens, call_texts, gattempt,
                   provider_requests, ncalls>>

ServiceNext ==
    \/ \E arg \in ProviderNames : Construct(arg)
    \/ \E ts \in TextLists : CallBatch(ts)
    \/ ReturnEmpty
    \/ \E usage \in 1..MaxUsage : ProviderReplies(usage)
    \/ ProviderRaises
    \/ CohereNoClient
    \/ FallsThrough

InitService ==
    PipeOff /\ ChunkerOff /\ FileOff /\ PagesOff /\ ServiceInit /\ StoreOff /\ TextOff
    /\ UpsertOff

SpecService == InitService /\ [][ServiceNext]_vars

\* ===================================================================
\* QdrantStore.upsert_embeddings and Retriever
\* ===================================================================
\* chunk_ids of the document
StoreIds == 1..4

\* limits a search is made with; the store may return fewer hits than the limit
TopKs == {2}

\* batch_size arguments of upsert_embeddings
UpsertBatchSizes == {1, 2, UPSERT_BATCH_SIZE}

\* EmbeddingRecords of the chunks first..first + n - 1, as process_all_chunks
\* builds them
RecordsOf(first, n) ==
    LET batch == [i \in 1..n |-> Chunk(first + i - 1)]
    IN CombineWithMetadata(batch, ProviderResponse(Texts(batch)))

\* the record lists one upsert_embeddings call may get
RecordLists ==
    UNION {{RecordsOf(first, n) :
               n \in 0..Min(MaxRecords, Cardinality(StoreIds) + 1 - first)} :
           first \in StoreIds}

\* ChunkStorage.get_chunk_by_id: the row as a dict, or None
get_chunk_by_id(rs, id) ==
    IF id \in rs THEN [found |-> TRUE, chunk |-> Chunk(id)]
    ELSE [found |-> FALSE, chunk |-> Chunk(0)]

\* QdrantStore.search: the points the client ranks first, best first; the
\* ranking is the vector database's
RankedPoints(store, limit) ==
    {h \in UNION {[1..k -> 1..Len(store)] : k \in 0..Min(limit, Len(store))} :
        \A i, j \in 1..Len(h) : i # j => h[i] # h[j]}

\* formatted_results of QdrantStore.search
FormatResults(store, ranked) ==
    [i \in 1..Len(ranked) |-> [chunk_id |-> store[ranked[i]], score |-> 0 - i]]

\* "for chunk_id in chunk_ids": the keys of chunks_dict
ChunksDict(rs, vector_results) ==
    {vector_results[i].chunk_id : i \in {j \in 1..Len(vector_results) :
        get_chunk_by_id(rs, vector_results[j].chunk_id).found}}

\* mutant: hits without a row are kept
CombineHits_KeepsMissing(rs, vector_results) ==
    [i \in 1..Len(vector_results) |->
        [chunk |-> Chunk(vector_results[i].chunk_id), score |-> vector_results[i].score]]

\* "for vector_result in vector_results": results
RECURSIVE CombineHits(_, _)
CombineHits(rs, vector_results) ==
    IF vector_results = <<>> THEN <<>>
    ELSE LET vector_result == Head(vector_results)
             rest == CombineHits(rs, Tail(vector_results))
         IN IF vector_result.chunk_id \in ChunksDict(rs, <<vector_result>>)
            THEN <<[chunk |-> get_chunk_by_id(rs, vector_result.chunk_id).chunk,
                    score |-> vector_result.score]>> \o rest
            ELSE rest

\* Retriever.search once the query embedding is there
SearchResults(rs, vector_results) ==
    IF vector_results = <<>> THEN <<>> ELSE CombineHits(rs, vector_results)

\* a collection, the rows of ChunkStorage, and nothing called yet
StoreInit ==
    /\ collection = <<>>
    /\ chunk_rows \in {{1, 3}, StoreIds}
    /\ uploads = <<>>
    /\ retrieved = NothingRetrieved

\* QdrantStore.upsert_embeddings(data, batch_size = ubs)
UpsertEmbeddings(data, ubs) ==
    /\ Len(uploads) < MaxUploads
    /\ collection' = upsert_embeddings_sized(collection, data, ubs)
    /\ uploads' = Append(uploads, [chunk_ids |-> ChunkIds(data),
                                   returned |-> Len(PointsFrom(data, 0, ubs))])
    /\ retrieved' = NothingRetrieved
    /\ UNCHANGED <<outsideStore, chunk_rows>>

\* Retriever.search(query, top_k)
Search(top_k) ==
    /\ \E ranked \in RankedPoints(collection, top_k) :
          LET vector_results == FormatResults(collection, ranked)
          IN retrieved' = [op |-> "search", arg |-> 0, embedded |-> TRUE,
                           vector_results |-> vector_results,
                           results |-> SearchResults(chunk_rows, vector_results)]
    /\ UNCHANGED <<outsideStore, collection, chunk_rows, uploads>>

\* Retriever.search_by_chunk_id(chunk_id, top_k)
SearchByChunkId(id, top_k) ==
    /\ LET chunk == get_chunk_by_id(chunk_rows, id)
       IN IF ~chunk.found
          THEN retrieved' = [op |-> "search_by_chunk_id", arg |-> id,
                             embedded |-> FALSE, vector_results |-> <<>>,
                             results |-> <<>>]
          ELSE \E ranked \in RankedPoints(collection, top_k) :
                 LET vector_results == FormatResults(collection, ranked)
                 IN retrieved' = [op |-> "search_by_chunk_id", arg |-> id,
                                  embedded |-> TRUE,
                                  vector_results |-> vector_results,
                                  results |-> SearchResults(chunk_rows, vector_results)]
    /\ UNCHANGED <<outsideStore, collection, chunk_rows, uploads>>

StoreNext ==
    \/ \E data \in RecordLists, ubs \in UpsertBatchSizes : UpsertEmbeddings(data, ubs)
    \/ \E top_k \in TopKs : Search(top_k)
    \/ \E id \in StoreIds, top_k \in TopKs : SearchByChunkId(id, top_k)

InitStore ==
    PipeOff /\ ChunkerOff /\ FileOff /\ PagesOff /\ ServiceOff /\ StoreInit /\ TextOff
    /\ UpsertOff

SpecStore == InitStore /\ [][StoreNext]_vars

\* ===================================================================
\* SmartChunker.split_text_by_sentences, and chunk_text on what it returns
\* ===================================================================
\* A text is the sequence of its characters.
Alphabet == {"a", ".", "?", " "}

\* the characters of [.!?]
Punctuation == {".", "!", "?"}

\* the characters \s matches, those str.strip() removes
Whitespace == {" ", "\t", "\n", "\r"}

TextsUpTo(n) == UNION {[1..k -> Alphabet] : k \in 0..n}

\* mutant: the pattern has lost its lookbehind, any whitespace run matches
MatchStartsAt_NoLookbehind(t, i) == t[i] \in Whitespace

\* (?<=[.!?])\s+ matches at character i
MatchStartsAt(t, i) ==
    /\ i > 1
    /\ t[i - 1] \in Punctuation
    /\ t[i] \in Whitespace

\* \s+ is greedy: the first character after the run of whitespace from i
RECURSIVE MatchEnd(_, _)
MatchEnd(t, i) ==
    IF i <= Len(t) /\ t[i] \in Whitespace THEN MatchEnd(t, i + 1) ELSE i

\* re.split: the pieces between the matches, from character i on, with the
\* piece `piece` begun
RECURSIVE re_split(_, _, _)
re_split(t, i, piece) ==
    IF i > Len(t) THEN <<piece>>
    ELSE IF MatchStartsAt(t, i)
         THEN <<piece>> \o re_split(t, MatchEnd(t, i), <<>>)
         ELSE re_split(t, i + 1, Append(piece, t[i]))

RECURSIVE lstrip(_)
lstrip(s) == IF s # <<>> /\ Head(s) \in Whitespace THEN lstrip(Tail(s)) ELSE s

RECURSIVE rstrip(_)
rstrip(s) ==
    IF s # <<>> /\ s[Len(s)] \in Whitespace THEN rstrip(SubSeq(s, 1, Len(s) - 1)) ELSE s

\* str.strip()
strip(s) == rstrip(lstrip(s))

\* [s.strip() for s in sentences if s.strip()]
RECURSIVE StripAndKeep(_)
StripAndKeep(pieces) ==
    IF pieces = <<>> THEN <<>>
    ELSE IF strip(Head(pieces)) # <<>>
         THEN <<strip(Head(pieces))>> \o StripAndKeep(Tail(pieces))
         ELSE StripAndKeep(Tail(pieces))

split_text_by_sentences(t) == StripAndKeep(re_split(t, 1, <<>>))

\* the words of a sentence, each as the number of tokens the encoding gives
\* it (here one per character)
RECURSIVE WordTokens(_, _)
WordTokens(s, word) ==
    IF s = <<>> THEN IF word > 0 THEN <<word>> ELSE <<>>
    ELSE IF Head(s) \in Whitespace
         THEN (IF word > 0 THEN <<word>> ELSE <<>>) \o WordTokens(Tail(s), 0)
         ELSE WordTokens(Tail(s), word + 1)

\* a chunker is constructed and chunk_text is called on a text
TextInit ==
    /\ chunk_size \in {InitChunkSize(arg) : arg \in {0, 2}}
    /\ overlap_arg \in {0, 1}
    /\ overlap = InitOverlap(overlap_arg)
    /\ page_number = 1
    /\ sentences = <<>>
    /\ pos = 0
    /\ chunks = <<>>
    /\ current_chunk = <<>>
    /\ current_tokens = 0
    /\ chunk_id = 0
    /\ cpc = "off"
    /\ trail = <<>>
    /\ page_text \in TextsUpTo(MaxTextLen)
    /\ text_sentences = <<>>

\* chunk_text: sentences = self.split_text_by_sentences(text), then the locals
SplitText ==
    /\ cpc = "off"
    /\ text_sentences' = split_text_by_sentences(page_text)
    /\ sentences' = [i \in 1..Len(text_sentences') |-> WordTokens(text_sentences'[i], 0)]
    /\ pos' = 0
    /\ chunks' = <<>>
    /\ current_chunk' = <<>>
    /\ current_tokens' = 0
    /\ chunk_id' = 0
    /\ cpc' = "loop"
    /\ trail' = <<>>
    /\ UNCHANGED <<outsideText, chunk_size, overlap, overlap_arg, page_number, page_text>>

TextNext ==
    \/ SplitText
    \/ ChunkerNext

InitText ==
    PipeOff /\ FileOff /\ PagesOff /\ ServiceOff /\ StoreOff /\ TextInit
    /\ UpsertOff

SpecText == InitText /\ [][TextNext]_vars

\* ===================================================================
\* QdrantStore.upsert_embeddings, batch by batch
\* ===================================================================
\* the record lists of the call
UpsertLists ==
    UNION {{RecordsOf(first, n) :
               n \in 0..Min(MaxUpsertLen, Cardinality(StoreIds) + 1 - first)} :
           first \in StoreIds}

\* what the collection holds before the call: nothing, or the points of
\* earlier uploads
CollectionsBefore == {<<>>, <<4>>, <<3, 4, 1, 2>>}

\* upsert_embeddings(embeddings_data, batch_size) is entered
UpsertInit ==
    /\ collection \in CollectionsBefore
    /\ chunk_rows = {}
    /\ uploads = <<>>
    /\ retrieved = NothingRetrieved
    /\ up_data \in UpsertLists
    /\ up_batch_size \in UpsertBatchSizes
    /\ up_i = 0
    /\ up_total = 0
    /\ upc = "loop"
    /\ up_returned = 0
    /\ up_sent = <<>>
    /\ up_before = collection

\* batch = embeddings_data[i:i + batch_size]
UpsertBatchOf(data, i, ubs) == SubSeq(data, i + 1, Min(i + ubs, Len(data)))

\* mutant: the ids of every batch start at 0
BatchPoints_RestartIds(batch, uploaded) ==
    [idx \in 1..Len(batch) |-> [id |-> idx - 1, chunk_id |-> batch[idx].chunk_id]]

\* "for idx, item in enumerate(batch)": the points of one batch
BatchPoints(batch, uploaded) ==
    [idx \in 1..Len(batch) |->
        [id |-> uploaded + (idx - 1), chunk_id |-> batch[idx].chunk_id]]

\* one iteration of the loop: the points are built, client.upsert takes them
UpsertBatch ==
    /\ upc = "loop"
    /\ up_i < Len(up_data)
    /\ LET points == BatchPoints(UpsertBatchOf(up_data, up_i, up_batch_size), up_total)
       IN /\ collection' = ApplyPoints(collection, points)
          /\ up_total' = up_total + Len(points)
          /\ up_sent' = Append(up_sent, points)
    /\ up_i' = up_i + up_batch_size
    /\ UNCHANGED <<outsideUpsert, chunk_rows, uploads, retrieved, up_data, up_batch_size,
                   upc, up_returned, up_before>>

\* client.upsert raises: the error leaves upsert_embeddings
UpsertRaises ==
    /\ upc = "loop"
    /\ up_i < Len(up_data)
    /\ upc' = "raised"
    /\ UNCHANGED <<outsideUpsert, storeVars, up_data, up_batch_size, up_i, up_total,
                   up_returned, up_sent, up_before>>

\* the loop is over: return total_uploaded
UpsertReturn ==
    /\ upc = "loop"
    /\ up_i >= Len(up_data)
    /\ up_returned' = up_total
    /\ upc' = "done"
    /\ UNCHANGED <<outsideUpsert, storeVars, up_data, up_batch_size, up_i, up_total,
                   up_sent, up_before>>

UpsertNext ==
    \/ UpsertBatch
    \/ UpsertRaises
    \/ UpsertReturn

InitUpsert ==
    PipeOff /\ ChunkerOff /\ FileOff /\ PagesOff /\ ServiceOff /\ TextOff /\ UpsertInit

SpecUpsert == InitUpsert /\ [][UpsertNext]_vars

\* ===================================================================
\* Properties
\* ===================================================================
IdsOfGroups(groups, from, to) == UNION {Range(groups[j]) : j \in from..to}

InRun == pc \in {"embedding", "after_loop", "returned"}

\* the checkpoint file as the run in progress found it (nothing writes it
\* between two invocations)
FileAtStart == prev.checkpoint

\* ---- C1 -----------------------------------------------------------
SingleOversizedWord(c) == Len(c.text) = 1 /\ c.text[1] > chunk_size

\* C1: with 0 < overlap < chunk_size every emitted chunk holds at most
\* chunk_size tokens, unless it is one word that alone exceeds chunk_size.
C1_TokenBudget ==
    (0 < overlap /\ overlap < chunk_size) =>
        \A i \in 1..Len(chunks) :
            \/ count_tokens(Join(chunks[i].sentences)) <= chunk_size
            \/ SingleOversizedWord(chunks[i])

\* ---- C2 -----------------------------------------------------------
\* C2: the processed set a run starts from is the checkpoint's (resume and
\* a file) or empty; no chunk_id of it is handed to the provider in the run,
\* and every chunk outside it is pending.
C2_ProcessedNeverSent ==
    InRun =>
        /\ loaded_ids = IF resume /\ FileAtStart.exists
                        THEN Range(FileAtStart.processed_chunk_ids) ELSE {}
        /\ \A k \in 1..Len(calls) : Range(calls[k]) \cap loaded_ids = {}
        /\ \A i \in 1..Len(all_chunks) :
              all_chunks[i].chunk_id \notin loaded_ids
                  => all_chunks[i] \in Range(chunks_to_process)

\* a resumed run that skipped some chunks and sent the others
C2_Witness ==
    /\ pc = "returned"
    /\ resume
    /\ loaded_ids # {}
    /\ Len(calls) >= 2

\* ---- C3 -----------------------------------------------------------
\* C3: a run started from an empty processed set whose group k fails
\* terminally leaves a checkpoint holding exactly the ids of groups 1..k-1,
\* none of group k or later, and returns nothing: the error leaves
\* process_all_chunks and index_all_chunks.
C3_FailureCheckpoint ==
    (prev.outcome = "failed" /\ prev.loaded = {}) =>
        LET k == prev.completed + 1
            saved == Range(prev.checkpoint.processed_chunk_ids)
        IN /\ prev.checkpoint.exists
           /\ saved = IdsOfGroups(prev.groups, 1, k - 1)
           /\ saved \cap IdsOfGroups(prev.groups, k, Len(prev.groups)) = {}
           /\ ~prev.result.returned
           /\ prev.uploaded_count = 0
           /\ pc = "idle" => checkpoint_file = prev.checkpoint

\* the shape of scenario C: full groups, a failure on group 2, a short last group
C3_Witness ==
    /\ prev.outcome = "failed"
    /\ prev.loaded = {}
    /\ prev.completed = 1
    /\ Len(prev.groups) = 3
    /\ Len(prev.groups[1]) = 3
    /\ Len(prev.groups[3]) = 2
    /\ Range(prev.checkpoint.processed_chunk_ids) = {1, 2, 3}

\* ---- C4 -----------------------------------------------------------
\* C4: when a resumed run succeeds after a run that failed terminally at
\* group k > 1, the chunks of the failed run's groups 1..k-1 have had their
\* records upserted to the vector store, and the resumed run did not embed
\* them again.
C4_CompletedGroupsDelivered ==
    [][(/\ pc = "returned"
        /\ resume
        /\ prev.outcome = "failed"
        /\ prev.completed >= 1
        /\ pc' = "idle"
        /\ prev'.outcome = "done")
       => LET early == IdsOfGroups(prev.groups, 1, prev.completed)
          IN /\ early \subseteq delivered'
             /\ early \cap Range(Flatten(calls)) = {}]_vars

\* ---- C5 -----------------------------------------------------------
\* C5: a run over M groups that ended (error, interrupt or kill) after N < M
\* completed groups, resumed over the same chunks, has the resumed run embed
\* exactly the chunks of groups N+1..M.
C5_ResumeEmbedsTheRest ==
    (/\ pc = "returned"
     /\ resume
     /\ prev.outcome \in {"failed", "interrupted", "crashed"}
     /\ prev.completed < Len(prev.groups)
     /\ prev.chunks = ChunkIds(all_chunks))
    => Flatten(calls) = Flatten(SubSeq(prev.groups, prev.completed + 1, Len(prev.groups)))

\* ---- C6 -----------------------------------------------------------
\* C6: after a kill while group k was in flight, the resumed run embeds
\* group k again and embeds no chunk of groups 1..k-1 again.
C6_CrashKeepsCompletedGroups ==
    (/\ InRun
     /\ resume
     /\ prev.outcome = "crashed"
     /\ Len(prev.calls) = prev.completed + 1)
    => /\ Range(Flatten(calls)) \cap IdsOfGroups(prev.groups, 1, prev.completed) = {}
       /\ pc = "returned"
             => Range(prev.groups[prev.completed + 1]) \subseteq Range(Flatten(calls))

\* ---- C7 -----------------------------------------------------------
\* C7: when every stored chunk is in the loaded processed set the run returns
\* an empty embeddings list, embeddings_generated = 0 and
\* processed = skipped = total_chunks, and the provider is never called.
C7_NothingPending ==
    (pc = "returned" /\ \A i \in 1..Len(all_chunks) : all_chunks[i].chunk_id \in loaded_ids)
    => /\ result.returned
       /\ result.embeddings = <<>>
       /\ result.embeddings_generated = 0
       /\ result.total_chunks = Len(all_chunks)
       /\ result.processed = result.total_chunks
       /\ result.skipped = result.total_chunks
       /\ calls = <<>>

\* a run over a non-empty store with everything checkpointed
C7_Witness ==
    /\ pc = "returned"
    /\ Len(all_chunks) >= 2
    /\ \A i \in 1..Len(all_chunks) : all_chunks[i].chunk_id \in loaded_ids

\* ---- C8 -----------------------------------------------------------
\* C8: a resume=true run right after a successful resume=true run over the
\* same chunks returns no EmbeddingRecord, calls the provider for nothing and
\* leaves the checkpoint's processed_chunk_ids as the first run wrote them.
C8_SecondRunIdle ==
    (/\ pc = "returned"
     /\ resume
     /\ prev.resume
     /\ prev.result.returned
     /\ prev.chunks = ChunkIds(all_chunks))
    => /\ result.embeddings = <<>>
       /\ calls = <<>>
       /\ checkpoint_file.exists = prev.checkpoint.exists
       /\ Range(checkpoint_file.processed_chunk_ids)
              = Range(prev.checkpoint.processed_chunk_ids)

\* the first run embedded several groups, the second has returned
C8_Witness ==
    /\ pc = "returned"
    /\ resume
    /\ prev.resume
    /\ prev.outcome = "done"
    /\ Len(prev.groups) >= 2
    /\ Len(prev.embeddings) = Len(all_chunks)

\* ---- C9 -----------------------------------------------------------
\* positions in all_chunks of the chunks outside the loaded processed set
PendingPositions == {i \in 1..Len(all_chunks) : all_chunks[i].chunk_id \notin loaded_ids}

\* C9: a returned embeddings list has one record per pending chunk, the
\* j-th record carrying chunk_id, source_page and token_count of the j-th
\* chunk of all_chunks that is outside the loaded processed set.
C9_RecordsFollowPending ==
    (pc = "returned") =>
        /\ Len(result.embeddings) = Cardinality(PendingPositions)
        /\ \A i \in PendingPositions :
              LET j == Cardinality({h \in PendingPositions : h <= i})
              IN /\ result.embeddings[j].chunk_id = all_chunks[i].chunk_id
                 /\ result.embeddings[j].source_page = all_chunks[i].source_page
                 /\ result.embeddings[j].token_count = all_chunks[i].token_count

\* a resumed run that skipped a prefix and returned records for several groups
C9_Witness ==
    /\ pc = "returned"
    /\ loaded_ids # {}
    /\ Len(batches) >= 2
    /\ Len(result.embeddings) >= 3

\* ---- C10 ----------------------------------------------------------
\* C10: the groups are consecutive slices of the pending list, all of
\* batch_size chunks but the last, which has 1..batch_size; concatenated
\* they are the pending list; and the k-th call to the provider carries
\* exactly the k-th group.
C10_Groups ==
    InRun =>
        /\ \A k \in 1..Len(batches) :
              /\ k < Len(batches) => Len(batches[k]) = batch_size
              /\ Len(batches[k]) >= 1
              /\ Len(batches[k]) <= batch_size
        /\ Flatten(batches) = chunks_to_process
        /\ Len(calls) = batch_idx + (IF pc = "embedding" THEN 1 ELSE 0)
        /\ Len(calls) <= Len(batches)
        /\ \A k \in 1..Len(calls) : calls[k] = ChunkIds(batches[k])

\* three full groups and a short one, all sent
C10_Witness ==
    /\ pc = "returned"
    /\ batch_size = 3
    /\ Len(batches) = 4
    /\ Len(batches[4]) = 2
    /\ Len(calls) = 4

\* ---- C11 ----------------------------------------------------------
\* what a load returned, as a checkpoint
Loaded == [processed_chunk_ids |-> rgot.processed_chunk_ids, last_batch |-> rgot.last_batch]

\* C11: a load_checkpoint that runs while a save_checkpoint is in progress, or
\* after a save was cut short by a kill, returns the complete checkpoint of
\* before that save or the complete checkpoint being saved.
C11_LoadSeesWholeCheckpoint ==
    rgot.done => (rgot.ok /\ Loaded \in racc)

\* ---- C12 ----------------------------------------------------------
\* the processed_chunk_ids of a run's saves, as sets, in the order written
SavedSets(log) == [i \in 1..Len(log) |-> Range(log[i].processed_chunk_ids)]

\* The saves a run owes: one after every 10th completed group, one before a
\* provider error leaves process_all_chunks, one at the end of a run that had
\* pending chunks; each holds the loaded set and the groups completed by then.
SavesDue(loaded, groups, completed, errored, finished) ==
    [j \in 1..(completed \div 10) |-> loaded \cup IdsOfGroups(groups, 1, 10 * j)]
        \o (IF errored THEN <<loaded \cup IdsOfGroups(groups, 1, completed)>> ELSE <<>>)
        \o (IF finished /\ groups # <<>>
            THEN <<loaded \cup IdsOfGroups(groups, 1, Len(groups))>> ELSE <<>>)

C13_SaveLoadRoundTrip ==
    (wpc = "idle" /\ last_save = "complete") =>
        LET back == load_checkpoint_text(disk_file)
        IN /\ back.ok
           /\ Range(back.processed_chunk_ids) = Range(wstate.processed_chunk_ids)
           /\ Len(back.processed_chunk_ids) = Len(wstate.processed_chunk_ids)
           /\ back.last_batch = wstate.last_batch

\* the same non-empty state saved twice running: two different texts
\* (the timestamps differ), one loadable state
C13_Witness ==
    /\ wpc = "idle"
    /\ last_save = "complete"
    /\ clock = 2
    /\ wstate = committed
    /\ Len(wstate.processed_chunk_ids) >= 2
    /\ disk_file.text[Len(disk_file.text) - 1] = 2
    /\ rgot.done
    /\ Loaded = wstate

\* ---- C14 ----------------------------------------------------------
\* C14: within a run each step leaves the processed set unchanged or adds
\* the chunk_ids of the group just embedded, and each checkpoint written in
\* the run holds every chunk_id of the checkpoints written before it in
\* that run.
C14_ProcessedGrows ==
    [][(InRun /\ pc' # "idle") =>
          /\ \/ processed_ids' = processed_ids
             \/ /\ batch_idx' = batch_idx + 1
                /\ processed_ids' = processed_ids \cup Range(calls[batch_idx'])
          /\ \A i \in 1..Len(saves') : \A j \in i..Len(saves') :
                Range(saves'[i].processed_chunk_ids)
                    \subseteq Range(saves'[j].processed_chunk_ids)]_vars

\* a run that wrote a checkpoint after its 10th group and a larger one at its end
C14_Witness ==
    /\ pc = "returned"
    /\ Len(batches) > 10
    /\ Len(saves) = 2
    /\ Range(saves[1].processed_chunk_ids) # Range(saves[2].processed_chunk_ids)

\* ---- C15 ----------------------------------------------------------
\* C15: when a run ends, however it was started and however it ends, the
\* checkpoint file holds every chunk_id it held when the run began.
C15_CheckpointKept ==
    [][(InRun /\ pc' = "idle") =>
          Range(prev.checkpoint.processed_chunk_ids)
              \subseteq Range(prev'.checkpoint.processed_chunk_ids)]_vars

\* ---- C16 ----------------------------------------------------------
\* C16: the call for a group is attempted at most 3 times; a failure of
\* attempt 1 or 2 leaves the run in the same group with nothing saved, a
\* success of any attempt completes the group, and the run ends in a
\* terminal error only on the failure of attempt 3.
C16_ThreeAttempts ==
    [][(pc = "embedding") =>
          /\ attempt + 1 <= 3
          /\ (pc' = "idle" /\ prev'.outcome = "failed") => attempt + 1 = 3
          /\ (attempt' = attempt + 1) =>
                /\ attempt + 1 < 3
                /\ pc' = "embedding"
                /\ batch_idx' = batch_idx
                /\ UNCHANGED <<processed_ids, checkpoint_file, calls, embeddings_data>>
          /\ (pc' # "idle" /\ attempt' # attempt + 1) =>
                /\ batch_idx' = batch_idx + 1
                /\ Range(calls[batch_idx']) \subseteq processed_ids']_vars

\* a group on its third attempt after an earlier group went through
C16_Witness ==
    /\ pc = "embedding"
    /\ attempt = 2
    /\ batch_idx >= 1

\* ---- C17 ----------------------------------------------------------
\* C17: the wait before retry k (k = 1, 2) of a call is min(10, 4 * 2^(k-1)),
\* that is 4 and then 8.
C17_Backoff ==
    (pc = "embedding" /\ attempt >= 1) => waited = Min(10, 4 * 2 ^ (attempt - 1))

\* ---- C18 ----------------------------------------------------------
\* the sentences of the chunk that follows output position i: the emitted
\* chunk, or the buffer while it is not emitted yet
SentencesAfter(i) == IF i + 1 <= Len(chunks) THEN chunks[i + 1].sentences ELSE current_chunk

IsSuffix(t, b) == Len(t) <= Len(b) /\ SubSeq(b, Len(b) - Len(t) + 1, Len(b)) = t

IsPrefix(t, b) == Len(t) <= Len(b) /\ SubSeq(b, 1, Len(t)) = t

\* C18: when a buffer is flushed because the next sentence, not itself
\* oversized, would exceed chunk_size, and overlap > 0, the overlap tail is
\* made of the trailing sentences of the flushed chunk and opens the next
\* chunk, in the same order, followed at once by that sentence.
C18_OverlapCarried ==
    \A t \in 1..Len(trail) :
        (trail[t].kind = "flush" /\ overlap > 0) =>
            LET e == trail[t]
                flushed == chunks[e.at + 1]
                following == SentencesAfter(e.at + 1)
            IN /\ flushed.sentences = e.buffer
               /\ IsSuffix(e.tail, flushed.sentences)
               /\ IsPrefix(e.tail \o <<e.sentence>>, following)
               /\ e.at + 2 <= Len(chunks) =>
                     IsPrefix(Join(e.tail \o <<e.sentence>>), chunks[e.at + 2].text)
               /\ cpc = "done" => e.at + 2 <= Len(chunks)

\* a flush that carried two sentences over, with the next chunk emitted
C18_Witness ==
    \E t \in 1..Len(trail) :
        /\ trail[t].kind = "flush"
        /\ Len(trail[t].tail) = 2
        /\ trail[t].at + 2 <= Len(chunks)
        /\ cpc = "done"

\* ---- C19 ----------------------------------------------------------
Suffix(b, k) == SubSeq(b, Len(b) - k + 1, Len(b))

SummedTokens(sents) == Sum([i \in 1..Len(sents) |-> count_tokens(sents[i])])

\* C19: the overlap tail of a flushed buffer is its longest suffix of
\* sentences whose summed token count is <= overlap.
C19_LongestSuffix ==
    \A t \in 1..Len(trail) :
        trail[t].kind = "flush" =>
            LET b == trail[t].buffer
                k == Len(trail[t].tail)
            IN /\ trail[t].tail = Suffix(b, k)
               /\ SummedTokens(Suffix(b, k)) <= overlap
               /\ \A j \in (k + 1)..Len(b) : SummedTokens(Suffix(b, j)) > overlap

\* a buffer of two sentences of which only the last fits the overlap
C19_Witness ==
    \E t \in 1..Len(trail) :
        /\ trail[t].kind = "flush"
        /\ Len(trail[t].buffer) = 2
        /\ Len(trail[t].tail) = 1
        /\ SummedTokens(trail[t].tail) < overlap

\* ---- C20 ----------------------------------------------------------
\* what _split_long_sentence counts for the words of one sub-chunk
PackedTokens(words) == Sum([i \in 1..Len(words) |-> count_tokens_word_blank(words[i])])

\* C20: for a sentence of more than chunk_size tokens the buffer, if not
\* empty, is flushed first; the sentence's words then follow in order, none
\* lost or repeated, in sub-chunks of at most chunk_size tokens (or of one
\* word), each filled until the next word no longer fits; the chunk counter
\* advances by one per chunk and the buffer is empty afterwards.
C20_OversizedSentence ==
    \A t \in 1..Len(trail) :
        trail[t].kind = "split" =>
            LET e == trail[t]
                f == IF e.buffer # <<>> THEN 1 ELSE 0
                first == e.at + f + 1
                last == e.at + e.emitted
                subs == [i \in 1..(last - first + 1) |-> chunks[first + i - 1]]
            IN /\ f = 1 => chunks[e.at + 1].sentences = e.buffer
               /\ Len(subs) >= 1
               /\ Flatten([i \in 1..Len(subs) |-> subs[i].text]) = e.sentence
               /\ \A i \in 1..Len(subs) :
                     /\ subs[i].sentences = <<subs[i].text>>
                     /\ \/ count_tokens(subs[i].text) <= chunk_size
                        \/ Len(subs[i].text) = 1
                     /\ \/ PackedTokens(subs[i].text) <= chunk_size
                        \/ Len(subs[i].text) = 1
                     /\ i < Len(subs) =>
                           PackedTokens(subs[i].text)
                               + count_tokens_word_blank(subs[i + 1].text[1]) > chunk_size
               /\ \A i \in (e.at + 1)..last : chunks[i].chunk_id = FormatChunkId(page_number, i - 1)
               /\ IF t < Len(trail)
                  THEN trail[t + 1].buffer = <<>> /\ trail[t + 1].at = last
                  ELSE current_chunk = <<>> /\ current_tokens = 0
                       /\ Len(chunks) = last /\ chunk_id = last

\* a buffer flushed, then an oversized sentence split in several sub-chunks,
\* then a chunk that starts afresh
C20_Witness ==
    /\ cpc = "done"
    /\ \E t \in 1..Len(trail) :
          /\ trail[t].kind = "split"
          /\ trail[t].buffer # <<>>
          /\ trail[t].emitted >= 3
          /\ t < Len(trail)
          /\ trail[t + 1].kind = "append"
          /\ \E i \in 1..Len(chunks) : Len(chunks[i].text) >= 2 /\ chunks[i].sentences = <<chunks[i].text>>

\* ---- C21 ----------------------------------------------------------
\* the chunk_ids of a list of chunks, in order
IdsOf(cs) == [i \in 1..Len(cs) |-> cs[i].chunk_id]

\* "u_0", "u_1", ..., "u_(n-1)"
IdsInOrder(u, n) == [i \in 1..n |-> Digits(u) \o <<UNDERSCORE>> \o Digits(i - 1)]

\* C21: the chunks chunk_text emits for unit u carry "u_0", "u_1", ... in
\* emission order, sub-chunks of oversized sentences included; over
\* process_pages on pages with pairwise distinct numbers no chunk_id occurs
\* twice.
C21_ChunkIds ==
    /\ cpc \in {"loop", "done"} => IdsOf(chunks) = IdsInOrder(page_number, Len(chunks))
    /\ \A p \in 1..Len(page_results) :
          IdsOf(page_results[p]) = IdsInOrder(pages[p].page_number, Len(page_results[p]))
    /\ (\A p, q \in 1..Len(pages) : p # q => pages[p].page_number # pages[q].page_number)
          => \A i, j \in 1..Len(pages_all_chunks) :
                i # j => pages_all_chunks[i].chunk_id # pages_all_chunks[j].chunk_id

\* pages 1 and 11, each chunked into several chunks, one with sub-chunks
C21_Witness ==
    /\ page_idx = 2
    /\ pages[1].page_number = 1
    /\ pages[2].page_number = 11
    /\ Len(page_results[1]) >= 4
    /\ Len(page_results[2]) >= 2
    /\ \E i \in 1..Len(page_results[1]) :
          page_results[1][i].sentences = <<page_results[1][i].text>>

\* ---- C22 ----------------------------------------------------------
\* C22: two calls of chunk_text on the same unit with the same chunker give
\* the same chunks: the same chunk_ids and texts in the same order.
C22_SameUnitSameChunks ==
    \A p, q \in 1..Len(page_results) :
        pages[p] = pages[q] =>
            /\ Len(page_results[p]) = Len(page_results[q])
            /\ \A i \in 1..Len(page_results[p]) :
                  /\ page_results[p][i].chunk_id = page_results[q][i].chunk_id
                  /\ page_results[p][i].text = page_results[q][i].text

\* the same page chunked twice, into several chunks
C22_Witness ==
    /\ page_idx = 2
    /\ pages[1] = pages[2]
    /\ Len(page_results[2]) >= 3

\* ---- C23 ----------------------------------------------------------
\* every sentence of the unit is at most chunk_size tokens long
AllFit == \A i \in 1..Len(sentences) : count_tokens(sentences[i]) <= chunk_size

\* C23: a unit (number 1) whose sentences fit chunk_size all together comes
\* out as exactly one chunk, "1_0", whose text is all the sentences joined by
\* single spaces.
C23_OneChunk ==
    (cpc = "done" /\ page_number = 1 /\ sentences # <<>>
        /\ SummedTokens(sentences) <= chunk_size)
    => /\ Len(chunks) = 1
       /\ chunks[1].chunk_id = <<1, UNDERSCORE, 0>>
       /\ chunks[1].text = Join(sentences)

\* three sentences, chunk_size and overlap left to the arguments' fallbacks
C23_Witness ==
    /\ cpc = "done"
    /\ Len(sentences) = 3
    /\ SummedTokens(sentences) <= chunk_size
    /\ chunk_size = CHUNK_SIZE
    /\ overlap = CHUNK_OVERLAP
    /\ Len(chunks) = 1

\* ---- C24 ----------------------------------------------------------
\* C24: when every sentence fits chunk_size and the unit is longer than two
\* chunk_sizes, at least 3 chunks come out; the second chunk starts with a
\* trailing run of the first chunk's sentences of at most `overlap` tokens
\* and goes on with the unit's next sentences.
C24_OverlappingChunks ==
    (cpc = "done" /\ AllFit)
    => /\ SummedTokens(sentences) > 2 * chunk_size => Len(chunks) >= 3
       /\ Len(chunks) >= 2 =>
            LET first == chunks[1].sentences
                second == chunks[2].sentences
            IN \E k \in 0..Len(first) :
                  /\ k < Len(second)
                  /\ Len(first) + Len(second) - k <= Len(sentences)
                  /\ SummedTokens(Suffix(first, k)) <= overlap
                  /\ second = Suffix(first, k)
                               \o SubSeq(sentences, Len(first) + 1,
                                         Len(first) + Len(second) - k)

\* 5 tokens of sentences against chunk_size 2, overlap 1: three chunks, the
\* second starting with the first one's last sentence
C24_Witness ==
    /\ cpc = "done"
    /\ AllFit
    /\ chunk_size = 2
    /\ overlap = 1
    /\ SummedTokens(sentences) = 5
    /\ Len(chunks) >= 3
    /\ Len(chunks[1].sentences) = 2
    /\ chunks[2].sentences[1] = chunks[1].sentences[2]
    /\ Len(chunks[2].sentences) = 2

\* ---- C25 ----------------------------------------------------------
\* the configuration names a provider the code can talk to and has its key
ConfigurationOK == provider = "openai" /\ settings_key

\* C25: with an unknown provider name or missing credentials the constructor
\* fails; no EmbeddingService with such a configuration gets into the body of
\* a provider call, and nothing is retried for it.
C25_ConfigErrorFatal ==
    /\ svc_state = "built" => ConfigurationOK
    /\ (gpc = "body" /\ call_texts # <<>>) => ConfigurationOK
    /\ gattempt > 1 => ConfigurationOK

\* ---- C26 ----------------------------------------------------------
\* C26: an index_all_chunks call that returns has called upsert exactly when
\* the embedding run produced at least one new record; either way it fetched
\* the collection statistics last and returned them; uploaded_count is 0 when
\* the upload was skipped and the number of new records otherwise.
C26_UploadIffNewRecords ==
    prev.outcome = "done"
    => /\ prev.collection_info = get_collection_info(vector_store)
       /\ IF prev.embeddings = <<>>
          THEN /\ prev.store_calls = <<"get_collection_info">>
               /\ prev.uploaded_count = 0
          ELSE /\ prev.store_calls = <<"upsert_embeddings", "get_collection_info">>
               /\ prev.uploaded_count = Len(prev.embeddings)

\* one invocation uploaded, the next one found nothing new and skipped
C26_Witness ==
    /\ run_no = 2
    /\ pc = "idle"
    /\ prev.outcome = "done"
    /\ prev.embeddings = <<>>
    /\ prev.collection_info.points_count > 1

\* ---- C27 ----------------------------------------------------------
\* C27: point ids start at 0 in every upsert_embeddings call, so a later
\* upload overwrites an earlier one: after an upload of n > 0 records and a
\* later one of m > 0 records of other chunks, points 0..min(n, m) - 1 hold
\* the later upload's chunk_ids and the collection has max(n, m) points, not
\* n + m.
C27_LaterUploadOverwrites ==
    (Len(uploads) = 2 /\ uploads[1].chunk_ids # <<>> /\ uploads[2].chunk_ids # <<>>
        /\ Range(uploads[1].chunk_ids) \cap Range(uploads[2].chunk_ids) = {})
    => LET n == Len(uploads[1].chunk_ids)
           m == Len(uploads[2].chunk_ids)
       IN /\ \A i \in 1..Min(n, m) : collection[i] = uploads[2].chunk_ids[i]
          /\ Len(collection) = Max(n, m)
          /\ Len(collection) < n + m
          /\ \A i \in (m + 1)..n : collection[i] = uploads[1].chunk_ids[i]

\* two chunks uploaded, then one other chunk: point 0 is the later chunk's
C27_Witness ==
    /\ Len(uploads) = 2
    /\ Len(uploads[1].chunk_ids) = 2
    /\ Len(uploads[2].chunk_ids) = 1
    /\ Range(uploads[1].chunk_ids) \cap Range(uploads[2].chunk_ids) = {}
    /\ collection[1] = uploads[2].chunk_ids[1]
    /\ Len(collection) = 2

\* ---- C28 ----------------------------------------------------------
\* provider attempts the run can still make at most
AttemptsLeft == STOP_AFTER_ATTEMPT * (Len(batches) - batch_idx) - attempt

\* C28: groups are embedded one at a time: the requests made so far are those
\* for the completed groups and the one in flight, and the next group is
\* requested only in the step that completes the group before it; a terminal
\* failure ends the run with no later group requested and nothing started
\* again; every step inside the loop uses up one of the at most 3 attempts
\* per group the run has left.
C28_OneGroupAtATime ==
    [][(pc = "embedding") =>
          /\ Len(calls) = batch_idx + 1
          /\ \A k \in 1..Len(calls) : calls[k] = ChunkIds(batches[k])
          /\ (run_no' = run_no /\ Len(calls') > Len(calls)) =>
                /\ Len(calls') = Len(calls) + 1
                /\ batch_idx' = batch_idx + 1
                /\ Range(calls[batch_idx']) \subseteq processed_ids'
          /\ (pc' = "idle" /\ prev'.outcome = "failed") =>
                /\ run_no' = run_no
                /\ prev'.calls = calls
                /\ prev'.completed = batch_idx
                /\ prev'.completed < Len(prev'.groups)
          /\ pc' = "embedding" =>
                /\ AttemptsLeft' < AttemptsLeft
                /\ AttemptsLeft' > 0]_vars

\* the second of at least three groups failed for good: two requests made
C28_Witness ==
    /\ pc = "idle"
    /\ prev.outcome = "failed"
    /\ prev.completed = 1
    /\ Len(prev.groups) >= 3
    /\ Len(prev.calls) = 2

\* ---- C29 ----------------------------------------------------------
\* the hits of the last search whose chunk has a row
HitsWithRow ==
    {i \in 1..Len(retrieved.vector_results) :
        retrieved.vector_results[i].chunk_id \in chunk_rows}

\* C29: looking up a chunk_id without a row gives the absence value; search
\* returns exactly the vector hits whose chunk has a row, in vector-rank
\* order, each with its score; search_by_chunk_id of a chunk_id without a row
\* returns the empty list without asking for an embedding.
C29_MissingChunks ==
    /\ \A id \in StoreIds \ chunk_rows : ~get_chunk_by_id(chunk_rows, id).found
    /\ retrieved.embedded =>
          /\ Len(retrieved.results) = Cardinality(HitsWithRow)
          /\ \A k \in 1..Len(retrieved.results) :
                \E i \in HitsWithRow :
                    /\ retrieved.results[k].chunk.chunk_id
                          = retrieved.vector_results[i].chunk_id
                    /\ retrieved.results[k].score = retrieved.vector_results[i].score
                    /\ Cardinality({j \in HitsWithRow : j <= i}) = k
    /\ (retrieved.op = "search_by_chunk_id" /\ retrieved.arg \notin chunk_rows)
          => retrieved.results = <<>> /\ ~retrieved.embedded

\* a search whose best hit has no row and whose second hit has one
C29_Witness ==
    /\ retrieved.op = "search"
    /\ Len(retrieved.vector_results) = 2
    /\ retrieved.vector_results[1].chunk_id \notin chunk_rows
    /\ Len(retrieved.results) = 1
    /\ retrieved.results[1].chunk.chunk_id = retrieved.vector_results[2].chunk_id

\* ---- C30 ----------------------------------------------------------
\* the characters of a text that are not whitespace, in order
Visible(t) == SelectSeq(t, LAMBDA c : c \notin Whitespace)

RECURSIVE Concat(_)
Concat(ss) == IF ss = <<>> THEN <<>> ELSE Head(ss) \o Concat(Tail(ss))

\* C30: split_text_by_sentences returns, in the text's order, non-empty
\* strings without leading or trailing whitespace; it splits exactly at the
\* whitespace that follows '.', '!' or '?', so no string has such a place
\* inside, every string but the last ends in one of the three, and nothing
\* but whitespace is lost; a text that is empty or all whitespace gives no
\* sentence, and chunk_text then emits no chunk.
C30_SentenceSplit ==
    cpc \in {"loop", "done"}
    => /\ \A k \in 1..Len(text_sentences) :
             LET s == text_sentences[k]
             IN /\ s # <<>>
                /\ s[1] \notin Whitespace
                /\ s[Len(s)] \notin Whitespace
                /\ \A i \in 2..Len(s) :
                      ~(s[i - 1] \in Punctuation /\ s[i] \in Whitespace)
                /\ k < Len(text_sentences) => s[Len(s)] \in Punctuation
       /\ Visible(Concat(text_sentences)) = Visible(page_text)
       /\ Len(text_sentences)
            = 1 + Cardinality({i \in 2..Len(page_text) :
                                  /\ page_text[i - 1] \in Punctuation
                                  /\ page_text[i] \in Whitespace
                                  /\ Visible(SubSeq(page_text, i, Len(page_text))) # <<>>})
              - (IF Visible(page_text) = <<>> THEN 1 ELSE 0)
       /\ Visible(page_text) = <<>> =>
             /\ text_sentences = <<>>
             /\ chunks = <<>>

\* a text of two sentences with whitespace around and inside
C30_Witness ==
    /\ cpc = "done"
    /\ page_text = <<" ", "a", ".", " ", "a">>
    /\ text_sentences = <<<<"a", ".">>, <<"a">>>>

\* ---- C31 ----------------------------------------------------------
\* all the points one call has sent, in the order sent
SentPoints == Concat(up_sent)

\* C31: upsert_embeddings returns the number of records it was given,
\* whatever the number and the batch size; the points it sends carry the
\* ids 0, 1, ..., n - 1 in the order of the records, each record's chunk_id
\* on its own point, and the collection ends as the whole-call model says.
C31_UpsertCountsAndIds ==
    /\ upc \in {"loop", "done", "raised"} =>
          \A k \in 1..Len(SentPoints) :
              /\ SentPoints[k].id = k - 1
              /\ SentPoints[k].chunk_id = up_data[k].chunk_id
    /\ upc = "done" =>
          /\ up_returned = Len(up_data)
          /\ Len(SentPoints) = Len(up_data)
          /\ \A k \in 1..Len(up_data) : collection[k] = up_data[k].chunk_id
          /\ collection = upsert_embeddings_sized(up_before, up_data, up_batch_size)

\* three records uploaded two at a time: a full batch and a short one
C31_Witness ==
    /\ upc = "done"
    /\ Len(up_data) = 3
    /\ up_batch_size = 2
    /\ Len(up_sent) = 2
    /\ up_returned = 3

\* ---- C32 ----------------------------------------------------------
\* C32: a generate_embeddings_batch call that returns gives the list of the
\* vectors of its texts, one per text in the texts' order; for no texts it
\* returns the empty list, sends nothing to the provider and leaves the usage
\* counter alone.
C32_OneVectorPerText ==
    [][(gpc = "body" /\ gpc' = "idle" /\ returned'.kind # "RetryError") =>
          /\ returned'.kind = "list"
          /\ Len(returned'.value) = Len(call_texts)
          /\ \A i \in 1..Len(call_texts) : returned'.value[i] = Vector(call_texts[i])
          /\ call_texts = <<>> =>
                /\ returned'.value = <<>>
                /\ provider_requests' = provider_requests
                /\ self_total_tokens' = self_total_tokens]_vars

\* ---- C33 ----------------------------------------------------------
\* C33: between invocations every chunk_id the checkpoint file lists as
\* processed has a point with that chunk_id in the collection.
C33_ProcessedMeansUploaded ==
    pc = "idle" => Range(checkpoint_file.processed_chunk_ids) \subseteq Range(vector_store)


\* ---- C34 ----------------------------------------------------------
\* the sentence lists of the chunks, in the order of emission
ChunkSentences == [i \in 1..Len(chunks) |-> chunks[i].sentences]

\* C34: a chunker constructed with overlap = 0 carries no sentence of a
\* flushed chunk into the next one, so that the chunks of a unit whose
\* sentences all fit hold every sentence exactly once.
C34_ZeroOverlapDisables ==
    overlap_arg = 0 =>
       /\ \A t \in 1..Len(trail) : trail[t].kind = "flush" => trail[t].tail = <<>>
       /\ (cpc = "done" /\ AllFit) => Concat(ChunkSentences) = sentences


\* ---- C35 ----------------------------------------------------------
\* the sentence lists chunk_text has built so far: the chunks emitted and,
\* inside the loop, the chunk being filled
BuiltSoFar ==
    ChunkSentences \o (IF cpc = "loop" /\ current_chunk # <<>>
                       THEN <<current_chunk>> ELSE <<>>)

\* the number of overlap sentences the j-th list starts with: the tail chosen
\* by the flush that emitted the list before it
Carried(j) ==
    IF \E t \in 1..Len(trail) : trail[t].kind = "flush" /\ trail[t].at + 2 = j
    THEN LET t == CHOOSE u \in 1..Len(trail) :
                      trail[u].kind = "flush" /\ trail[u].at + 2 = j
         IN Len(trail[t].tail)
    ELSE 0

\* the lists without their overlap sentences, one after the other
WithoutOverlap ==
    Concat([j \in 1..Len(BuiltSoFar) |->
               SubSeq(BuiltSoFar[j], Carried(j) + 1, Len(BuiltSoFar[j]))])

\* pieces are the sentences sents in order: a sentence that fits as itself,
\* an oversized one as consecutive pieces that hold its words in order
RECURSIVE Represents(_, _)
Represents(pieces, sents) ==
    IF sents = <<>> THEN pieces = <<>>
    ELSE IF count_tokens(Head(sents)) <= chunk_size
         THEN /\ pieces # <<>>
              /\ Head(pieces) = Head(sents)
              /\ Represents(Tail(pieces), Tail(sents))
         ELSE \E k \in 1..Len(pieces) :
                 /\ Flatten(SubSeq(pieces, 1, k)) = Head(sents)
                 /\ Represents(SubSeq(pieces, k + 1, Len(pieces)), Tail(sents))

\* C35: chunk_text loses and reorders nothing: the chunks without their
\* overlap sentences, in the order emitted, are the sentences consumed so far
\* in their order, an oversized sentence standing as its words in order; every
\* overlap is the end of the chunk before it.
C35_NothingLostOrReordered ==
    cpc \in {"loop", "done"} =>
       /\ \A j \in 1..Len(BuiltSoFar) : Carried(j) <= Len(BuiltSoFar[j])
       /\ \A j \in 2..Len(BuiltSoFar) :
             Carried(j) > 0 =>
                SubSeq(BuiltSoFar[j], 1, Carried(j))
                   = SubSeq(BuiltSoFar[j - 1], Len(BuiltSoFar[j - 1]) - Carried(j) + 1,
                            Len(BuiltSoFar[j - 1]))
       /\ Represents(WithoutOverlap, SubSeq(sentences, 1, pos))

\* a unit chunked with a flush that carried an overlap and with an oversized
\* sentence that was split into several chunks behind a flushed buffer
C35_Witness ==
    /\ cpc = "done"
    /\ \E t \in 1..Len(trail) : trail[t].kind = "flush" /\ trail[t].tail # <<>>
    /\ \E t \in 1..Len(trail) :
          trail[t].kind = "split" /\ trail[t].buffer # <<>> /\ trail[t].emitted >= 3


\* ===================================================================
\* The pipeline over a chunk store that is cleared and refilled between
\* invocations (storage.py: clear_all_chunks "for reprocessing", store_chunks)
\* ===================================================================
\* the rows with the chunk_ids ids, as get_all_chunks returns them
StoreOf(ids) == [i \in 1..Cardinality(ids) |-> Chunk(SetToList(ids)[i])]

\* clear_all_chunks, then store_chunks with the chunks of a new chunking:
\* the first chunk_id may be gone and a new last one may have come
Reprocess ==
    /\ pc = "idle"
    /\ run_no >= 1
    /\ storage # <<>>
    /\ LET ids == Range(ChunkIds(storage))
           first == storage[1].chunk_id
           last == storage[Len(storage)].chunk_id
       IN \E gone \in SUBSET {first}, new \in SUBSET ({last + 1} \cap 1..(MaxStored + 1)) :
             /\ gone \cup new # {}
             /\ storage' = StoreOf((ids \ gone) \cup new)
    /\ UNCHANGED <<batch_size, outsidePipe, checkpoint_file, vector_store, pc, resume,
                   processed_ids, all_chunks, chunks_to_process, batches, batch_idx,
                   attempt, waited, embeddings_data, result, loaded_ids, calls, saves,
                   delivered, run_no, prev, up_sent, up_before>>

ReprocessNext == Next \/ Reprocess

InitReprocess == Init /\ Len(storage) <= MaxStored

SpecReprocess == InitReprocess /\ [][ReprocessNext]_vars

\* ---- C36 ----------------------------------------------------------
\* C36: a result process_all_chunks returns accounts for every chunk of the
\* store once: skipped = total_chunks when nothing was pending, and
\* processed + skipped = total_chunks otherwise, whatever the checkpoint
\* that was loaded.
C36_CountsAddUp ==
    (pc = "returned" /\ result.returned) =>
        IF chunks_to_process = <<>>
        THEN result.skipped = result.total_chunks
        ELSE result.processed + result.skipped = result.total_chunks


\* ===================================================================
\* The pipeline with a provider whose response may hold fewer vectors than
\* the request held texts
\* ===================================================================
\* response.data with its last items missing
ShortResponses(texts) ==
    {SubSeq(ProviderResponse(texts), 1, k) : k \in 0..(Len(texts) - 1)}

\* generate_embeddings_batch returns a list shorter than texts; the try block
\* zips it with the group, updates the processed set and goes on
AttemptReturnsFewer ==
    /\ pc = "embedding"
    /\ \E embeddings \in ShortResponses(Texts(CurrentBatch)) :
          embeddings_data' = embeddings_data \o CombineWithMetadata(CurrentBatch, embeddings)
    /\ processed_ids' = processed_ids \cup Range(ChunkIds(CurrentBatch))
    /\ IF (batch_idx + 1) % SAVE_EVERY = 0
       THEN /\ checkpoint_file' = save_checkpoint(SetToList(processed_ids'), batch_idx + 1)
            /\ saves' = Append(saves, checkpoint_file')
       ELSE UNCHANGED <<checkpoint_file, saves>>
    /\ batch_idx' = batch_idx + 1
    /\ attempt' = 0
    /\ waited' = 0
    /\ calls' = EnterLoopBody(calls, batches, batch_idx')
    /\ pc' = IF batch_idx' < Len(batches) THEN "embedding" ELSE "after_loop"
    /\ UNCHANGED <<persistent, vector_store, resume, all_chunks, chunks_to_process,
                   batches, result, loaded_ids, delivered, run_no, prev>>

ShortReplyNext == Next \/ AttemptReturnsFewer

InitShortReply == Init /\ Len(storage) <= MaxStored

SpecShortReply == InitShortReply /\ [][ShortReplyNext]_vars

\* ---- C37 ----------------------------------------------------------
\* C37: between the groups of a run and after the last one, the chunk_ids
\* this run has added to the processed set are the chunk_ids of the records
\* accumulated so far, no more and no fewer.
C37_ProcessedHaveRecords ==
    pc \in {"embedding", "after_loop"} =>
        processed_ids \ loaded_ids = Range(ChunkIds(embeddings_data))

====
